---------------------------- MODULE Spec2Model ----------------------------
(***************************************************************************)
(* Uniswap V3 tick math of degenbot_rs (src/rust/src/tick_math.rs):        *)
(*   get_sqrt_ratio_at_tick_internal : tick  -> sqrt price (Q64.96, U160)  *)
(*   get_tick_at_sqrt_ratio_internal : price -> tick (I24)                 *)
(* and the Python-facing wrappers around them.                             *)
(*                                                                         *)
(* TLC's integers are 32 bits wide, so the 160- and 256-bit words of the   *)
(* code are modelled as little-endian sequences of bytes (element 1 is the *)
(* least significant byte): a U256 or I256 is 32 bytes, a U160 is 20, and  *)
(* an I256 is read in two's complement.  The wide-integer operators below  *)
(* are the operations of the ruint / alloy_primitives types the code uses. *)
(***************************************************************************)
EXTENDS Integers, Sequences, FiniteSets, TLC

\* The state of a call in progress; the calls are described where the actions are.
VARIABLES
    pc,              \* where the call in progress stands
    entry,           \* "internal": the _internal functions are called; "python": the wrappers
    caller,          \* who called the encoder: "a", "b" (the test's two calls) or "decoder"
    tick_a, ratio_a, \* the caller's first tick, and the encoder's result for it
    tick_b, ratio_b, \* the caller's second tick, and the encoder's result for it
    tick,            \* the encoder's argument
    abs_tick,        \* encoder local
    ratio,           \* local of both functions
    i,               \* row of the table, or bit position, of the running loop
    enc_result,      \* what get_sqrt_ratio_at_tick_internal returned
    py_value,        \* what get_sqrt_ratio_at_tick returned
    base, delta,     \* the decoded price is ratio_a ("a") or ratio_b ("b") moved by delta
    py_obj,          \* the argument of get_tick_at_sqrt_ratio
    sqrt_price_x96,  \* the decoder's argument
    r, msb, f, log_2,       \* decoder locals
    tick_low, tick_high,    \* decoder locals
    dec_result,      \* what get_tick_at_sqrt_ratio_internal returned
    py_result,       \* what get_tick_at_sqrt_ratio returned
    alloy_entry,     \* how lib.rs is entered: "rust" or "python"
    alloy_caller,    \* who called get_sqrt_ratio_at_tick_alloy: "test" or "decoder"
    alloy_tick, alloy_abs_tick, alloy_ratio, alloy_i,  \* lib.rs encoder locals
    alloy_enc_result,       \* what get_sqrt_ratio_at_tick_alloy returned
    alloy_price,            \* sqrt_price_x96 of get_tick_at_sqrt_ratio_alloy
    alloy_r, alloy_msb, alloy_f, alloy_log_2,  \* lib.rs decoder locals
    alloy_tick_low, alloy_tick_high,           \* lib.rs decoder locals
    alloy_dec_result,       \* what get_tick_at_sqrt_ratio_alloy returned
    alloy_py_arg,           \* the argument of a lib.rs translator
    alloy_py_result         \* what a lib.rs translator returned

---------------------------------------------------------------------------
(* Wide unsigned integers: fixed-width little-endian byte sequences.       *)

\* The n values of a function on 1..n as a sequence, each computed once.
Word(fn, n) == SubSeq(fn, 1, n)

Zeros(n) == Word([k \in 1..n |-> 0], n)

\* Widening (U256::from(U160)) or truncation to n bytes.
Resize(a, n) == Word([k \in 1..n |-> IF k <= Len(a) THEN a[k] ELSE 0], n)

RECURSIVE Pow2(_)
Pow2(n) ==
    IF n >= 8 THEN 256 * Pow2(n - 8)
    ELSE <<1, 2, 4, 8, 16, 32, 64, 128>>[n + 1]

\* A natural below 2^31 as an n-byte word.
NatBytes(x, n) ==
    Word([k \in 1..n |-> IF k > 4 THEN 0 ELSE (x \div Pow2(8 * (k - 1))) % 256], n)

\* The highest index in 1..k of a nonzero byte of a, or 0.
TopByte(a, k) ==
    IF \A j \in 1..k : a[j] = 0 THEN 0
    ELSE CHOOSE j \in 1..k : a[j] # 0 /\ \A m \in (j + 1)..k : a[m] = 0

\* Number of significant bytes of a (0 for zero).
SigLen(a) == TopByte(a, Len(a))

IsZero(a) == SigLen(a) = 0

\* -1, 0 or 1 as a < b, a = b, a > b on bytes 1..k (unsigned): the
\* highest byte that differs decides.
Cmp(a, b, k) ==
    IF \A j \in 1..k : a[j] = b[j] THEN 0
    ELSE LET top == CHOOSE j \in 1..k :
                      a[j] # b[j] /\ \A m \in (j + 1)..k : a[m] = b[m]
         IN  IF a[top] < b[top] THEN -1 ELSE 1

Lt(a, b) == Cmp(a, b, Len(a)) < 0
Le(a, b) == Cmp(a, b, Len(a)) <= 0

\* a + b modulo 2^(8 * Len(a)).  carry[k] is the carry out of byte k: some
\* byte sum (s, at most 510) at or below k overflows, and the sums between
\* it and k, being 255, pass the carry on.
wrapping_add(a, b) ==
    LET n == Len(a)
        s == Word([k \in 1..n |-> a[k] + b[k]], n)
        carry[k \in 0..n] ==
            IF \E j \in 1..k : s[j] >= 256 /\ \A m \in (j + 1)..k : s[m] = 255
            THEN 1 ELSE 0
    IN  Word([k \in 1..n |-> (s[k] + carry[k - 1]) % 256], n)

\* a - b modulo 2^(8 * Len(a)).  borrow[k] is the borrow out of byte k:
\* some byte difference (d) at or below k is negative, and the differences
\* between it and k, being 0, pass the borrow on.
wrapping_sub(a, b) ==
    LET n == Len(a)
        d == Word([k \in 1..n |-> a[k] - b[k]], n)
        borrow[k \in 0..n] ==
            IF \E j \in 1..k : d[j] < 0 /\ \A m \in (j + 1)..k : d[m] = 0
            THEN 1 ELSE 0
    IN  Word([k \in 1..n |-> (d[k] - borrow[k - 1]) % 256], n)

\* Sum of the byte products a[j] * b[k + 1 - j] of column k, j in lo..hi.
RECURSIVE ColSum(_, _, _, _, _)
ColSum(a, b, k, lo, hi) ==
    IF lo > hi THEN 0
    ELSE IF hi - lo >= 7
    THEN a[lo] * b[k + 1 - lo] + a[lo + 1] * b[k - lo] + a[lo + 2] * b[k - 1 - lo]
         + a[lo + 3] * b[k - 2 - lo] + a[lo + 4] * b[k - 3 - lo]
         + a[lo + 5] * b[k - 4 - lo] + a[lo + 6] * b[k - 5 - lo]
         + a[lo + 7] * b[k - 6 - lo] + ColSum(a, b, k, lo + 8, hi)
    ELSE IF hi - lo >= 3
    THEN a[lo] * b[k + 1 - lo] + a[lo + 1] * b[k - lo] + a[lo + 2] * b[k - 1 - lo]
         + a[lo + 3] * b[k - 2 - lo] + ColSum(a, b, k, lo + 4, hi)
    ELSE IF hi - lo >= 1
    THEN a[lo] * b[k + 1 - lo] + a[lo + 1] * b[k - lo] + ColSum(a, b, k, lo + 2, hi)
    ELSE a[lo] * b[k + 1 - lo]

\* a * b modulo 2^(8 * Len(a)): the product's high bytes are dropped.  The
\* column sums (col, below 2^24) are spread over the three bytes each
\* covers (mid, at most 765), and these into their low bytes and carries.
wrapping_mul(a, b) ==
    LET n   == Len(a)
        la  == SigLen(a)
        lb  == SigLen(b)
        col == Word([k \in 1..n |->
                       ColSum(a, b, k, IF k + 1 - lb > 1 THEN k + 1 - lb ELSE 1,
                              IF k < la THEN k ELSE la)], n)
        mid == Word([k \in 1..n |->
                       (col[k] % 256)
                       + (IF k > 1 THEN (col[k - 1] \div 256) % 256 ELSE 0)
                       + (IF k > 2 THEN col[k - 2] \div 65536 ELSE 0)], n)
    IN  IF la = 0 \/ lb = 0 THEN Zeros(n)
        ELSE wrapping_add(Word([k \in 1..n |-> mid[k] % 256], n),
                          Word([k \in 1..n |-> IF k > 1 THEN mid[k - 1] \div 256 ELSE 0], n))

\* Logical shift right by s bits; a shift of the whole width or more gives 0.
Shr(a, s) ==
    LET n  == Len(a)
        q  == s \div 8
        lo == Pow2(s % 8)
        up == Pow2(8 - (s % 8))
        B(k) == IF k <= n THEN a[k] ELSE 0
    IN  Word([k \in 1..n |-> (B(k + q) \div lo) + (B(k + q + 1) % lo) * up], n)

\* Shift left by s bits modulo 2^(8 * Len(a)).
Shl(a, s) ==
    LET n  == Len(a)
        q  == s \div 8
        lo == Pow2(s % 8)
        up == Pow2(8 - (s % 8))
        B(k) == IF k >= 1 THEN a[k] ELSE 0
    IN  Word([k \in 1..n |-> ((B(k - q) * lo) % 256) + (B(k - q - 1) \div up)], n)

\* Bitwise AND of two naturals.
RECURSIVE BitAnd(_, _)
BitAnd(x, y) ==
    IF x = 0 \/ y = 0 THEN 0
    ELSE (IF x % 2 = 1 /\ y % 2 = 1 THEN 1 ELSE 0) + 2 * BitAnd(x \div 2, y \div 2)

\* Bitwise OR of two naturals.
BitOr(x, y) == x + y - BitAnd(x, y)

WordOr(a, b) == Word([k \in 1..Len(a) |-> BitOr(a[k], b[k])], Len(a))

\* a * x + c modulo 2^(8 * Len(a)), for naturals x and c up to 2^23.  The
\* byte products (t, below 2^31) are spread over the four bytes each
\* covers (mid, below 1024), and these into their low bytes and carries.
MulSmall(a, x, c) ==
    LET n    == Len(a)
        t    == Word([k \in 1..n |-> a[k] * x + (IF k = 1 THEN c ELSE 0)], n)
        T(k) == IF k >= 1 THEN t[k] ELSE 0
        mid  == Word([k \in 1..n |->
                        (T(k) % 256) + ((T(k - 1) \div 256) % 256)
                        + ((T(k - 2) \div 65536) % 256) + (T(k - 3) \div 16777216)], n)
    IN  wrapping_add(Word([k \in 1..n |-> mid[k] % 256], n),
                     Word([k \in 1..n |-> IF k > 1 THEN mid[k - 1] \div 256 ELSE 0], n))

\* Subtracts b from rem while rem >= b, counting in q.
RECURSIVE DivCorrect(_, _, _)
DivCorrect(rem, b, q) ==
    IF Le(b, rem) THEN DivCorrect(wrapping_sub(rem, b), b, q + 1)
    ELSE [rem |-> rem, q |-> q]

\* One digit of long division in base 256.  b is the divisor, of m >= 2
\* significant bytes, and rem < 256 * b the running remainder, both m + 1
\* bytes wide.  The digit is estimated from below by the top three bytes of
\* rem over the top two of b plus one, which is at most two short, and then
\* corrected.  Gives the digit (q) and the remainder left (rem).
DivDigit(rem, b, m) ==
    LET r3 == rem[m + 1] * 65536 + rem[m] * 256 + rem[m - 1]
        b2 == b[m] * 256 + b[m - 1]
        q0 == r3 \div (b2 + 1)
        r0 == IF q0 = 0 THEN rem
              ELSE wrapping_sub(rem, MulSmall(b, q0, 0))
        c  == DivCorrect(r0, b, q0)
    IN  [q |-> <<c.q>>, rem |-> c.rem]

\* Long division over the dividend's bytes hi down to lo: the quotient's
\* bytes hi..lo, most significant first (q), and the remainder afterwards.
\* rem is the remainder so far, below b, in m + 1 bytes.
RECURSIVE DivRange(_, _, _, _, _, _)
DivRange(a, b, m, lo, hi, rem) ==
    IF lo = hi
    THEN DivDigit(<<a[lo]>> \o SubSeq(rem, 1, m), b, m)
    ELSE LET mid == (lo + hi) \div 2
             H   == DivRange(a, b, m, mid + 1, hi, rem)
             L   == DivRange(a, b, m, lo, mid, H.rem)
         IN  [q |-> H.q \o L.q, rem |-> L.rem]

Reverse(s) == Word([k \in 1..Len(s) |-> s[Len(s) + 1 - k]], Len(s))

\* Quotient (q, most significant byte first) and remainder (rem) of a by
\* b # 0.  A divisor of one significant byte is scaled by 256 together
\* with the dividend, which leaves the quotient as it is and scales the
\* remainder.
DivMod(a, b) ==
    LET n  == Len(a)
        m  == SigLen(b)
    IN  IF m >= 2
        THEN DivRange(a, Resize(b, m + 1), m, 1, n, Zeros(m + 1))
        ELSE LET w == DivRange(<<0>> \o a, <<0, b[1], 0>>, 2, 1, n + 1, Zeros(3))
             IN  [q |-> SubSeq(w.q, 2, n + 1), rem |-> <<w.rem[2]>>]

\* floor(a / b) for b # 0, in the width of a.
Div(a, b) == Reverse(DivMod(a, b).q)

\* a - b * floor(a / b) for b # 0, in the width of a.
Rem(a, b) == Resize(DivMod(a, b).rem, Len(a))

---------------------------------------------------------------------------
(* Literals: the code's hexadecimal and decimal constants, written as the  *)
(* source writes them and parsed into words.                               *)

HexDigit(c) ==
    CASE c = "0" -> 0  [] c = "1" -> 1  [] c = "2" -> 2  [] c = "3" -> 3
      [] c = "4" -> 4  [] c = "5" -> 5  [] c = "6" -> 6  [] c = "7" -> 7
      [] c = "8" -> 8  [] c = "9" -> 9  [] c = "a" -> 10 [] c = "b" -> 11
      [] c = "c" -> 12 [] c = "d" -> 13 [] c = "e" -> 14 [] c = "f" -> 15

\* The n-byte word a hexadecimal literal denotes.
Hex(s, n) ==
    LET L == Len(s)
        D(j) == IF j >= 1 THEN HexDigit(SubSeq(s, j, j)) ELSE 0
    IN  Word([k \in 1..n |-> D(L - 2 * k + 2) + 16 * D(L - 2 * k + 1)], n)

\* The number that digits lo..hi of a decimal literal denote, for at most
\* nine digits.
DecDigits(s, lo, hi) ==
    LET d[m \in (lo - 1)..hi] ==
            IF m < lo THEN 0 ELSE 10 * d[m - 1] + HexDigit(SubSeq(s, m, m))
    IN  d[hi]

\* The n-byte word that a decimal literal denotes, six digits at a time:
\* pre[m] is the word of the first (first) digits and the m - 1 groups of
\* six after them, the word before it times 10^6 plus the group.  A
\* literal whose leading groups already reach the top byte does not fit n
\* bytes and denotes no word.
DecGroups(s, n) ==
    LET groups == (Len(s) + 5) \div 6
        first  == Len(s) - 6 * (groups - 1)
        group(m) == DecDigits(s, first + 6 * (m - 2) + 1, first + 6 * (m - 1))
        pre[m \in 1..groups] ==
            IF m = 1 THEN NatBytes(DecDigits(s, 1, first), n)
            ELSE LET before == pre[m - 1]
                 IN  IF before[n] # 0 THEN <<>>
                     ELSE MulSmall(before, 1000000, group(m))
    IN  pre[groups]

\* The n-byte word a decimal literal denotes.
Dec(s, n) == DecGroups(s, n)

U256(s) == Hex(s, 32)
U160(s) == Dec(s, 20)

---------------------------------------------------------------------------
(* Constants of tick_math.rs.                                              *)

MIN_TICK == -887272
MAX_TICK == 887272

SqrtRatio_MIN == U160("4295128739")
SqrtRatio_MAX == U160("1461446703485210103287273052203988822378723970342")

U256_ZERO == Zeros(32)
U256_ONE  == NatBytes(1, 32)
U256_MAX  == Word([k \in 1..32 |-> 255], 32)

\* (tick_mask, ratio_multiplier), in the order of the table.
TICK_MASKS == <<
    <<\h2,     U256("fff97272373d413259a46990580e213a")>>,
    <<\h4,     U256("fff2e50f5f656932ef12357cf3c7fdcc")>>,
    <<\h8,     U256("ffe5caca7e10e4e61c3624eaa0941cd0")>>,
    <<\h10,    U256("ffcb9843d60f6159c9db58835c926644")>>,
    <<\h20,    U256("ff973b41fa98c081472e6896dfb254c0")>>,
    <<\h40,    U256("ff2ea16466c96a3843ec78b326b52861")>>,
    <<\h80,    U256("fe5dee046a99a2a811c461f1969c3053")>>,
    <<\h100,   U256("fcbe86c7900a88aedcffc83b479aa3a4")>>,
    <<\h200,   U256("f987a7253ac413176f2b074cf7815e54")>>,
    <<\h400,   U256("f3392b0822b70005940c7a398e4b70f3")>>,
    <<\h800,   U256("e7159475a2c29b7443b29c7fa6e889d9")>>,
    <<\h1000,  U256("d097f3bdfd2022b8845ad8f792aa5825")>>,
    <<\h2000,  U256("a9f746462d870fdf8a65dc1f90e061e5")>>,
    <<\h4000,  U256("70d869a156d2a1b890bb3df62baf32f7")>>,
    <<\h8000,  U256("31be135f97d08fd981231505542fcfa6")>>,
    <<\h10000, U256("9aa508b5b7a84e1c677de54f3e99bc9")>>,
    <<\h20000, U256("5d6af8dedb81196699c329225ee604")>>,
    <<\h40000, U256("2216e584f5fa1ea926041bedfe98")>>,
    <<\h80000, U256("48a170391f7dc42444e8fa2")>> >>

ONE_SHL_32 == U256("100000000")

\* Result<_, TickMathError> values, and a panic (an abort of the call).
Ok(v)                == [tag |-> "Ok", val |-> v]
InvalidTick(t)       == [tag |-> "InvalidTick", val |-> t]
SqrtRatioOutOfBounds == [tag |-> "SqrtRatioOutOfBounds", val |-> <<>>]
Panic(why)           == [tag |-> "Panic", val |-> why]

---------------------------------------------------------------------------
(* get_sqrt_ratio_at_tick_internal, statement by statement.                *)

\* The check with an exclusive range in place of the inclusive one.
TickInRange_exclusive(t) == MIN_TICK < t /\ t < MAX_TICK

\* if !(MIN_TICK..=MAX_TICK).contains(&tick)
TickInRange(t) == MIN_TICK <= t /\ t <= MAX_TICK

\* tick.unsigned_abs(), for a tick that passed the range check.
unsigned_abs(t) == IF t < 0 THEN -t ELSE t

\* The seed of an even abs_tick at 2^160 in place of 2^128.
RatioSeed_wide(abs_tick_) ==
    IF BitAnd(abs_tick_, 1) = 0
    THEN U256("10000000000000000000000000000000000000000")
    ELSE U256("fffcb933bd6fad37aa2d162d1a594001")

\* The seed of ratio: chosen by the low bit of abs_tick.
RatioSeed(abs_tick_) ==
    IF BitAnd(abs_tick_, 1) = 0
    THEN U256("100000000000000000000000000000000")
    ELSE U256("fffcb933bd6fad37aa2d162d1a594001")

\* The iteration with the table's last row left out.
RatioStep_short(abs_tick_, ratio_, k) ==
    IF k < Len(TICK_MASKS) /\ BitAnd(abs_tick_, TICK_MASKS[k][1]) # 0
    THEN Shr(wrapping_mul(ratio_, TICK_MASKS[k][2]), 128)
    ELSE ratio_

\* One iteration of the loop over TICK_MASKS, for table row k.
RatioStep(abs_tick_, ratio_, k) ==
    IF BitAnd(abs_tick_, TICK_MASKS[k][1]) # 0
    THEN Shr(wrapping_mul(ratio_, TICK_MASKS[k][2]), 128)
    ELSE ratio_

\* The inversion taken for the negative ticks in place of the positive.
RatioInvert_negative(t, ratio_) ==
    IF t < 0
    THEN (IF IsZero(ratio_) THEN Panic("division by zero") ELSE Ok(Div(U256_MAX, ratio_)))
    ELSE Ok(ratio_)

\* if tick > 0 { ratio = U256::MAX / ratio }: division by zero panics.
RatioInvert(t, ratio_) ==
    IF t > 0
    THEN (IF IsZero(ratio_) THEN Panic("division by zero") ELSE Ok(Div(U256_MAX, ratio_)))
    ELSE Ok(ratio_)

\* The narrowing that rounds down in place of up.
Narrow_down(ratio_) ==
    LET sqrt_ratio == Shr(ratio_, 32)
    IN  IF SigLen(sqrt_ratio) > 20
        THEN Panic("to::<U160>")
        ELSE Ok(Resize(sqrt_ratio, 20))

\* The narrowing that adds one whatever the discarded bits are.
Narrow_up(ratio_) ==
    LET sqrt_ratio == wrapping_add(Shr(ratio_, 32), U256_ONE)
    IN  IF SigLen(sqrt_ratio) > 20
        THEN Panic("to::<U160>")
        ELSE Ok(Resize(sqrt_ratio, 20))

\* The narrowing to the 96-bit scale, rounding up, and to::<U160>(), which
\* panics on a value of more than 160 bits.
Narrow(ratio_) ==
    LET shifted    == Shr(ratio_, 32)
        sqrt_ratio == IF ~IsZero(Rem(ratio_, ONE_SHL_32))
                      THEN wrapping_add(shifted, U256_ONE)
                      ELSE shifted
    IN  IF SigLen(sqrt_ratio) > 20
        THEN Panic("to::<U160>")
        ELSE Ok(Resize(sqrt_ratio, 20))

---------------------------------------------------------------------------
(* Signed 256-bit integers (I256): 32-byte words in two's complement.  The *)
(* arithmetic operators give the wrapped value (val) and whether the exact *)
(* result is out of range (ovf).                                           *)

IsNeg(a) == a[Len(a)] >= 128

\* The two's complement of a.
Negate(a) == wrapping_sub(Zeros(Len(a)), a)

\* unsigned_abs(): the magnitude, as an unsigned word.
Magnitude(a) == IF IsNeg(a) THEN Negate(a) ELSE a

overflowing_add(a, b) ==
    LET v == wrapping_add(a, b)
    IN  [ovf |-> IsNeg(a) = IsNeg(b) /\ IsNeg(v) # IsNeg(a), val |-> v]

overflowing_sub(a, b) ==
    LET v == wrapping_sub(a, b)
    IN  [ovf |-> IsNeg(a) # IsNeg(b) /\ IsNeg(v) # IsNeg(a), val |-> v]

\* The magnitudes are multiplied in twice the width; the product must fit
\* the width and, with its sign, the signed range.
overflowing_mul(a, b) ==
    LET n    == Len(a)
        wide == wrapping_mul(Resize(Magnitude(a), 2 * n), Resize(Magnitude(b), 2 * n))
        neg  == IsNeg(a) # IsNeg(b)
        low  == Resize(wide, n)
        v    == IF neg THEN Negate(low) ELSE low
    IN  [ovf |-> SigLen(wide) > n \/ (~IsZero(low) /\ IsNeg(v) # neg),
         val |-> v]

\* The shift without the sign's bits.
Asr_logical(a, s) == Shr(a, s)

\* asr(s), for 0 < s < 255: the logical shift, with the vacated bits set
\* when the value is negative.
Asr(a, s) ==
    IF IsNeg(a)
    THEN WordOr(Shr(a, s), Shl(Word([k \in 1..Len(a) |-> 255], Len(a)), 8 * Len(a) - s))
    ELSE Shr(a, s)

\* to::<I24>(): the low three bytes when the rest is their sign extension,
\* and a panic otherwise.
to_I24(a) ==
    LET fill == IF a[3] >= 128 THEN 255 ELSE 0
    IN  IF \A k \in 4..Len(a) : a[k] = fill
        THEN Ok(SubSeq(a, 1, 3))
        ELSE Panic("to::<I24>")

\* as_i32(): the value of a 24-bit two's complement word.
as_i32(w) ==
    LET u == w[1] + 256 * w[2] + 65536 * w[3]
    IN  IF w[3] >= 128 THEN u - 16777216 ELSE u

\* I24::unchecked_from(i32), for a value in the 24-bit range.
I24(t) == SubSeq(NatBytes(IF t < 0 THEN t + 16777216 ELSE t, 4), 1, 3)

\* to::<usize>(): the value of a word below 2^31.
to_usize(a) == a[1] + 256 * a[2] + 65536 * a[3] + 16777216 * a[4]

---------------------------------------------------------------------------
(* get_tick_at_sqrt_ratio_internal, statement by statement.                *)

\* (factor, shift_bits), in the order of the table.
FACTOR_SHIFT_VALUES == <<
    <<U256("ffffffffffffffffffffffffffffffff"), 7>>,
    <<U256("ffffffffffffffff"), 6>>,
    <<U256("ffffffff"), 5>>,
    <<U256("ffff"), 4>>,
    <<U256("ff"), 3>>,
    <<U256("f"), 2>>,
    <<U256("3"), 1>>,
    <<U256("1"), 0>> >>

LOG_SQRT10001_MULT == Dec("255738958999603826347141", 32)
TICK_LOW_OFFSET    == Dec("3402992956809132418596140100660247210", 32)
TICK_HIGH_OFFSET   == Dec("291339464771989622907027621153398088495", 32)

\* The check with the upper end included.
PriceInRange_inclusive(p) == Le(SqrtRatio_MIN, p) /\ Le(p, SqrtRatio_MAX)

\* sqrt_price_x96 >= SqrtRatio::MIN && sqrt_price_x96 < SqrtRatio::MAX
PriceInRange(p) == Le(SqrtRatio_MIN, p) /\ Lt(p, SqrtRatio_MAX)

\* let ratio: U256 = U256::from(sqrt_price_x96) << 32
RatioOfPrice(p) == Shl(Resize(p, 32), 32)

\* The iteration with r >= factor in place of r > factor.
MsbStep_inclusive(r_, msb_, k) ==
    LET factor == FACTOR_SHIFT_VALUES[k][1]
        f_     == Shl(NatBytes(IF Le(factor, r_) THEN 1 ELSE 0, 32), FACTOR_SHIFT_VALUES[k][2])
    IN  [f |-> f_, msb |-> WordOr(msb_, f_), r |-> Shr(r_, to_usize(f_))]

\* One iteration of the loop over FACTOR_SHIFT_VALUES, for table row k:
\* the new f, msb and r.
MsbStep(r_, msb_, k) ==
    LET factor == FACTOR_SHIFT_VALUES[k][1]
        f_     == Shl(NatBytes(IF Lt(factor, r_) THEN 1 ELSE 0, 32), FACTOR_SHIFT_VALUES[k][2])
    IN  [f |-> f_, msb |-> WordOr(msb_, f_), r |-> Shr(r_, to_usize(f_))]

\* r after the block that normalises ratio to bit 127.
Normalise(ratio_, msb_) ==
    LET msb_usize == to_usize(msb_)
    IN  IF msb_usize >= 128
        THEN Shr(ratio_, msb_usize - 127)
        ELSE Shl(ratio_, 127 - msb_usize)

\* log_2 after the same block: (msb - 128) << 64, and whether the
\* subtraction overflowed.
Log2Seed(msb_) ==
    LET d == overflowing_sub(NatBytes(to_usize(msb_), 32), NatBytes(128, 32))
    IN  [val |-> Shl(d.val, 64), ovf |-> d.ovf]

\* The refinement step without r >>= f.
LogStep_unshifted(r_, log_2_, shift_factor, keep) ==
    LET sq == Shr(wrapping_mul(r_, r_), 127)
        f_ == Shr(sq, 128)
    IN  [f     |-> f_,
         log_2 |-> WordOr(log_2_, Shl(f_, shift_factor)),
         r     |-> sq]

\* One refinement step at bit position shift_factor; the last step (keep)
\* leaves r unshifted.
LogStep(r_, log_2_, shift_factor, keep) ==
    LET sq == Shr(wrapping_mul(r_, r_), 127)
        f_ == Shr(sq, 128)
    IN  [f     |-> f_,
         log_2 |-> WordOr(log_2_, Shl(f_, shift_factor)),
         r     |-> IF keep THEN sq ELSE Shr(sq, to_usize(f_))]

\* tick_low and tick_high as Result values, from log_sqrt10001 (the product
\* and whether it overflowed) and the offset added for tick_high, and
\* whether one of the three signed operations overflowed.
CandidatesOf(log_sqrt10001, high_offset) ==
    LET log_sqrt_low  == overflowing_sub(log_sqrt10001.val, TICK_LOW_OFFSET)
        log_sqrt_high == overflowing_add(log_sqrt10001.val, high_offset)
    IN  [ovf  |-> log_sqrt10001.ovf \/ log_sqrt_low.ovf \/ log_sqrt_high.ovf,
         low  |-> to_I24(Asr(log_sqrt_low.val, 128)),
         high |-> to_I24(Asr(log_sqrt_high.val, 128))]

\* The candidates with twice TICK_HIGH_OFFSET added.
Candidates_wide(log_2_) ==
    CandidatesOf(overflowing_mul(log_2_, LOG_SQRT10001_MULT),
                 wrapping_add(TICK_HIGH_OFFSET, TICK_HIGH_OFFSET))

\* The two candidate ticks of log_2.
Candidates(log_2_) ==
    CandidatesOf(overflowing_mul(log_2_, LOG_SQRT10001_MULT), TICK_HIGH_OFFSET)

\* The tie-break with the strict comparison in place of <=.
Choose_strict(high_ratio, p, tick_low_, tick_high_) ==
    IF Lt(high_ratio, p) THEN Ok(tick_high_) ELSE Ok(tick_low_)

\* The tie-break with the comparison turned round.
Choose_reversed(high_ratio, p, tick_low_, tick_high_) ==
    IF Le(p, high_ratio) THEN Ok(tick_high_) ELSE Ok(tick_low_)

\* if high_ratio <= sqrt_price_x96 { tick_high } else { tick_low }
Choose(high_ratio, p, tick_low_, tick_high_) ==
    IF Le(high_ratio, p) THEN Ok(tick_high_) ELSE Ok(tick_low_)

---------------------------------------------------------------------------
(* The Python boundary.  A Python object is a record of its kind ("int",   *)
(* "bytes" or "none") and value: an int, which is never negative here, is  *)
(* its little-endian bytes without high zero bytes, as an arbitrary-       *)
(* precision integer has no width; a bytes object is its bytes in order.   *)

PyInt(v)   == [kind |-> "int", val |-> v]
PyBytes(b) == [kind |-> "bytes", val |-> b]
PyNone     == [kind |-> "none", val |-> <<>>]

PyValueError(msg) == [tag |-> "PyValueError", val |-> msg]
PyTypeError(msg)  == [tag |-> "PyTypeError", val |-> msg]

\* impl From<TickMathError> for PyErr
PyErrFrom(err) == PyValueError(err.tag)

BYTES_PER_WORD == 20

\* A word without its high zero bytes.
Canonical(a) == SubSeq(a, 1, SigLen(a))

\* result.to_be_bytes::<20>()
to_be_bytes(a) == Reverse(a)

\* int.from_bytes(bytes, "big")
int_from_bytes_big(b) == PyInt(Canonical(Reverse(b)))

\* Number of bits of a natural below 256.
RECURSIVE BitLen(_)
BitLen(x) == IF x = 0 THEN 0 ELSE 1 + BitLen(x \div 2)

\* BigUint::bits() of an integer given by its canonical bytes.
bits(v) == IF Len(v) = 0 THEN 0 ELSE 8 * (Len(v) - 1) + BitLen(v[Len(v)])

\* BigUint::to_u64_digits(): the 64-bit digits, least significant first,
\* each as 8 bytes; none for zero.
to_u64_digits(v) ==
    Word([j \in 1..((Len(v) + 7) \div 8) |->
            Word([k \in 1..8 |-> IF 8 * (j - 1) + k <= Len(v) THEN v[8 * (j - 1) + k] ELSE 0], 8)],
         (Len(v) + 7) \div 8)

\* let mut limbs = [0u64; 3]; limbs[..digits.len()].copy_from_slice(&digits)
\* The slice panics when there are more than three digits.
CopyLimbs(digits) ==
    IF Len(digits) > 3 THEN Panic("range end index out of range")
    ELSE Ok(Word([j \in 1..3 |-> IF j <= Len(digits) THEN digits[j] ELSE Zeros(8)], 3))

\* U160::from_limbs(limbs): the limbs side by side; bits above the 160th
\* panic.
from_limbs(limbs) ==
    LET all == limbs[1] \o limbs[2] \o limbs[3]
    IN  IF \E k \in (BYTES_PER_WORD + 1)..Len(all) : all[k] # 0
        THEN Panic("Value too large for this Uint")
        ELSE Ok(SubSeq(all, 1, BYTES_PER_WORD))

\* The parse that takes a short slice for the high bytes.
try_from_be_slice_high(b) ==
    LET le == Reverse(Resize(b, BYTES_PER_WORD))
    IN  IF Len(b) > BYTES_PER_WORD /\ SigLen(Reverse(b)) > BYTES_PER_WORD
        THEN [tag |-> "None", val |-> <<>>]
        ELSE Ok(le)

\* U160::try_from_be_slice(bytes): None when the value needs more than 160
\* bits; a shorter slice is the low bytes.
try_from_be_slice(b) ==
    LET le == Reverse(b)
    IN  IF SigLen(le) > BYTES_PER_WORD THEN [tag |-> "None", val |-> <<>>]
        ELSE Ok(Resize(le, BYTES_PER_WORD))

\* The extraction that keeps the low 160 bits of an argument too wide.
extract_u160_truncating(obj) ==
    IF obj.kind = "bytes" THEN Ok(Resize(Reverse(obj.val), BYTES_PER_WORD))
    ELSE IF obj.kind = "int" THEN Ok(Resize(obj.val, BYTES_PER_WORD))
    ELSE PyTypeError("sqrt_price_x96 must be int or bytes")

\* fn extract_u160(obj): bytes of at most 20, or an int of at most 160 bits.
extract_u160(obj) ==
    IF obj.kind = "bytes"
    THEN IF Len(obj.val) > BYTES_PER_WORD
         THEN PyValueError("Sqrt price X96 is too large (exceeds 20 bytes)")
         ELSE LET w == try_from_be_slice(obj.val)
              IN  IF w.tag = "Ok" THEN w
                  ELSE PyValueError("Failed to parse sqrt_price_x96 from bytes")
    ELSE IF obj.kind = "int"
    THEN IF bits(obj.val) > 160
         THEN PyValueError("Sqrt price X96 is too large (exceeds 160 bits)")
         ELSE LET limbs == CopyLimbs(to_u64_digits(obj.val))
              IN  IF limbs.tag = "Ok" THEN from_limbs(limbs.val) ELSE limbs
    ELSE PyTypeError("sqrt_price_x96 must be int or bytes")

---------------------------------------------------------------------------
(* lib.rs: get_sqrt_ratio_at_tick_alloy, statement by statement.  abs_tick *)
(* is a U256 here, and the masks of the table are U256 too.                *)

MIN_SQRT_RATIO_alloy == U160("4295128739")
MAX_SQRT_RATIO_alloy == U160("1461446703485210103287273052203988822378723970342")

\* Bitwise AND of two words.
WordAnd(a, b) == Word([k \in 1..Len(a) |-> BitAnd(a[k], b[k])], Len(a))

\* U256::try_from(tick.unsigned_abs()).unwrap(): the magnitude of an i32,
\* which is 2^31 for the least of them.
unsigned_abs_alloy(t) ==
    IF t = -2147483647 - 1
    THEN Word([k \in 1..32 |-> IF k = 4 THEN 128 ELSE 0], 32)
    ELSE NatBytes(IF t < 0 THEN -t ELSE t, 32)

\* (tick_mask, ratio_multiplier), in the order of the table.
TICK_MASKS_alloy == <<
    <<U256("2"),     U256("fff97272373d413259a46990580e213a")>>,
    <<U256("4"),     U256("fff2e50f5f656932ef12357cf3c7fdcc")>>,
    <<U256("8"),     U256("ffe5caca7e10e4e61c3624eaa0941cd0")>>,
    <<U256("10"),    U256("ffcb9843d60f6159c9db58835c926644")>>,
    <<U256("20"),    U256("ff973b41fa98c081472e6896dfb254c0")>>,
    <<U256("40"),    U256("ff2ea16466c96a3843ec78b326b52861")>>,
    <<U256("80"),    U256("fe5dee046a99a2a811c461f1969c3053")>>,
    <<U256("100"),   U256("fcbe86c7900a88aedcffc83b479aa3a4")>>,
    <<U256("200"),   U256("f987a7253ac413176f2b074cf7815e54")>>,
    <<U256("400"),   U256("f3392b0822b70005940c7a398e4b70f3")>>,
    <<U256("800"),   U256("e7159475a2c29b7443b29c7fa6e889d9")>>,
    <<U256("1000"),  U256("d097f3bdfd2022b8845ad8f792aa5825")>>,
    <<U256("2000"),  U256("a9f746462d870fdf8a65dc1f90e061e5")>>,
    <<U256("4000"),  U256("70d869a156d2a1b890bb3df62baf32f7")>>,
    <<U256("8000"),  U256("31be135f97d08fd981231505542fcfa6")>>,
    <<U256("10000"), U256("9aa508b5b7a84e1c677de54f3e99bc9")>>,
    <<U256("20000"), U256("5d6af8dedb81196699c329225ee604")>>,
    <<U256("40000"), U256("2216e584f5fa1ea926041bedfe98")>>,
    <<U256("80000"), U256("48a170391f7dc42444e8fa2")>> >>

\* let mut ratio = if abs_tick & U256::ONE != U256::ZERO { .. } else { .. }
RatioSeed_alloy(abs_tick_) ==
    IF ~IsZero(WordAnd(abs_tick_, U256_ONE))
    THEN U256("fffcb933bd6fad37aa2d162d1a594001")
    ELSE U256("100000000000000000000000000000000")

\* One iteration of the loop over the table, for row k.
RatioStep_alloy(abs_tick_, ratio_, k) ==
    IF ~IsZero(WordAnd(abs_tick_, TICK_MASKS_alloy[k][1]))
    THEN Shr(wrapping_mul(ratio_, TICK_MASKS_alloy[k][2]), 128)
    ELSE ratio_

\* if tick > 0 { ratio = U256::MAX / ratio }: division by zero panics.
RatioInvert_alloy(t, ratio_) ==
    IF t > 0
    THEN (IF IsZero(ratio_) THEN Panic("division by zero") ELSE Ok(Div(U256_MAX, ratio_)))
    ELSE Ok(ratio_)

\* let mut sqrt_ratio = ratio >> 32; if (ratio % ONE_SHL_32) != U256::ZERO
\* { sqrt_ratio += U256::ONE }; sqrt_ratio.to::<U160>(), which panics on a
\* value of more than 160 bits.
Narrow_alloy(ratio_) ==
    LET shifted    == Shr(ratio_, 32)
        sqrt_ratio == IF ~IsZero(Rem(ratio_, U256("100000000")))
                      THEN wrapping_add(shifted, U256_ONE)
                      ELSE shifted
    IN  IF SigLen(sqrt_ratio) > 20
        THEN Panic("to::<U160>")
        ELSE Ok(Resize(sqrt_ratio, 20))

---------------------------------------------------------------------------
(* lib.rs: get_tick_at_sqrt_ratio_alloy, statement by statement.           *)

\* (factor, shift_bits), in the order of the table.
FACTOR_SHIFT_VALUES_alloy == <<
    <<U256("ffffffffffffffffffffffffffffffff"), 7>>,
    <<U256("ffffffffffffffff"), 6>>,
    <<U256("ffffffff"), 5>>,
    <<U256("ffff"), 4>>,
    <<U256("ff"), 3>>,
    <<U256("f"), 2>>,
    <<U256("3"), 1>>,
    <<U256("1"), 0>> >>

\* I256::unchecked_from(&str) of the three decimal strings.
LOG_SQRT10001_MULT_alloy == Dec("255738958999603826347141", 32)
TICK_LOW_OFFSET_alloy    == Dec("3402992956809132418596140100660247210", 32)
TICK_HIGH_OFFSET_alloy   == Dec("291339464771989622907027621153398088495", 32)

\* assert!(sqrt_price_x96 >= MIN_SQRT_RATIO && sqrt_price_x96 < MAX_SQRT_RATIO)
PriceAsserted_alloy(p) == Le(MIN_SQRT_RATIO_alloy, p) /\ Lt(p, MAX_SQRT_RATIO_alloy)

\* let ratio: U256 = U256::from(sqrt_price_x96) << 32
RatioOfPrice_alloy(p) == Shl(Resize(p, 32), 32)

\* One iteration of the loop over the table, for row k: the new f, msb
\* and r.
MsbStep_alloy(r_, msb_, k) ==
    LET factor == FACTOR_SHIFT_VALUES_alloy[k][1]
        f_     == Shl(NatBytes(IF Lt(factor, r_) THEN 1 ELSE 0, 32),
                      FACTOR_SHIFT_VALUES_alloy[k][2])
    IN  [f |-> f_, msb |-> WordOr(msb_, f_), r |-> Shr(r_, to_usize(f_))]

\* r after the block that normalises ratio to bit 127.
Normalise_alloy(ratio_, msb_) ==
    LET msb_usize == to_usize(msb_)
    IN  IF msb_usize >= 128
        THEN Shr(ratio_, msb_usize - 127)
        ELSE Shl(ratio_, 127 - msb_usize)

\* asl(s): the value shifted left, or None when bits or the sign are lost.
asl(a, s) ==
    LET v == Shl(a, s)
    IN  IF Asr(v, s) = a THEN Ok(v) ELSE [tag |-> "None", val |-> <<>>]

\* log_2 after the same block: (msb - 128).asl(64).unwrap(); whether the
\* subtraction overflowed (ovf), and the value, or the panic of unwrap().
Log2Seed_alloy(msb_) ==
    LET d == overflowing_sub(NatBytes(to_usize(msb_), 32), NatBytes(128, 32))
        v == asl(d.val, 64)
    IN  [ovf |-> d.ovf,
         res |-> IF v.tag = "Ok" THEN v ELSE Panic("unwrap on None")]

\* One refinement step at bit position shift_factor; the last step (keep)
\* leaves r unshifted.
LogStep_alloy(r_, log_2_, shift_factor, keep) ==
    LET sq == Shr(wrapping_mul(r_, r_), 127)
        f_ == Shr(sq, 128)
    IN  [f     |-> f_,
         log_2 |-> WordOr(log_2_, Shl(f_, shift_factor)),
         r     |-> IF keep THEN sq ELSE Shr(sq, to_usize(f_))]

\* I24::from(x) of an I256: the low three bytes when the rest is their
\* sign extension.  What it does otherwise (tag "Unfit") is the library's.
I24_from(a) ==
    LET fill == IF a[3] >= 128 THEN 255 ELSE 0
    IN  IF \A k \in 4..Len(a) : a[k] = fill
        THEN Ok(SubSeq(a, 1, 3))
        ELSE [tag |-> "Unfit", val |-> SubSeq(a, 1, 3)]

\* tick_low and tick_high from log_sqrt10001 (the product and whether it
\* overflowed), and whether one of the three signed operations overflowed.
CandidatesOf_alloy(log_sqrt10001) ==
    LET log_sqrt_low  == overflowing_sub(log_sqrt10001.val, TICK_LOW_OFFSET_alloy)
        log_sqrt_high == overflowing_add(log_sqrt10001.val, TICK_HIGH_OFFSET_alloy)
    IN  [ovf  |-> log_sqrt10001.ovf \/ log_sqrt_low.ovf \/ log_sqrt_high.ovf,
         low  |-> I24_from(Asr(log_sqrt_low.val, 128)),
         high |-> I24_from(Asr(log_sqrt_high.val, 128))]

\* The two candidate ticks of log_2.
Candidates_alloy(log_2_) ==
    CandidatesOf_alloy(overflowing_mul(log_2_, LOG_SQRT10001_MULT_alloy))

\* The choice with < in place of <=.
Choose_alloy_strict(high_ratio, p, tick_low_, tick_high_) ==
    IF Lt(high_ratio, p) THEN tick_high_ ELSE tick_low_

\* if get_sqrt_ratio_at_tick_alloy(tick_high.as_i32()) <= sqrt_price_x96
\* { tick_high } else { tick_low }
Choose_alloy(high_ratio, p, tick_low_, tick_high_) ==
    IF Le(high_ratio, p) THEN tick_high_ ELSE tick_low_

\* BigUint::to_bytes_le(): the bytes of the integer, one zero byte for 0.
to_bytes_le(v) == IF Len(v) = 0 THEN <<0>> ELSE v

\* The argument of get_tick_at_sqrt_ratio_alloy_translator as a U160:
\* the bytes padded to 20, and try_into().unwrap(), which panics on more.
PriceOfBigUint(v) ==
    LET bytes == to_bytes_le(v)
    IN  IF Len(bytes) > 20
        THEN Panic("unwrap on Err")
        ELSE Ok(Resize(bytes, 20))

\* BigUint::from_bytes_be(&result.to_be_bytes::<20>()) as a Python int.
BigUintOfPrice(a) == PyInt(Canonical(Reverse(to_be_bytes(a))))

---------------------------------------------------------------------------
(* The calls.  A caller (a Rust caller such as the tests, or Python        *)
(* through the pyfunction wrappers) calls the encoder with a tick, and the *)
(* decoder with a price: the encoder's result moved by delta, or a price   *)
(* of its own.  The loops advance one iteration per step.                  *)

vars == <<pc, entry, caller, tick_a, ratio_a, tick_b, ratio_b, tick, abs_tick,
          ratio, i, enc_result, py_value, base, delta, py_obj, sqrt_price_x96,
          r, msb, f, log_2, tick_low, tick_high, dec_result, py_result,
          alloy_entry, alloy_caller, alloy_tick, alloy_abs_tick, alloy_ratio,
          alloy_i, alloy_enc_result, alloy_price, alloy_r, alloy_msb, alloy_f,
          alloy_log_2, alloy_tick_low, alloy_tick_high, alloy_dec_result,
          alloy_py_arg, alloy_py_result>>

\* The state of tick_math.rs and its callers, and the state of lib.rs.
tick_math_vars ==
    <<entry, caller, tick_a, ratio_a, tick_b, ratio_b, tick, abs_tick, ratio, i,
      enc_result, py_value, base, delta, py_obj, sqrt_price_x96, r, msb, f,
      log_2, tick_low, tick_high, dec_result, py_result>>
alloy_enc_frame == <<alloy_tick, alloy_abs_tick, alloy_ratio, alloy_i, alloy_enc_result>>
alloy_dec_locals ==
    <<alloy_price, alloy_r, alloy_msb, alloy_f, alloy_log_2, alloy_tick_low,
      alloy_tick_high, alloy_dec_result>>
alloy_py == <<alloy_py_arg, alloy_py_result>>
alloy_vars ==
    <<alloy_entry, alloy_caller, alloy_enc_frame, alloy_dec_locals, alloy_py>>

enc_frame == <<tick, abs_tick, ratio, i, enc_result>>
dec_locals == <<r, msb, f, log_2, tick_low, tick_high>>
test_locals == <<tick_a, ratio_a, tick_b, ratio_b>>

NoResult == [tag |-> "None", val |-> <<>>]

\* How far a caller moves an encoded price before decoding it.
MaxDelta == 1

\* How many bytes beyond BYTES_PER_WORD a bytes argument may have.
MaxExtra == 1

\* The ticks of the unit tests' vectors.
GoldenTicks ==
    {0, 1, -1, 10, -10, 100, -100, 1000, -1000, 10000, -10000, 100000, -100000,
     500000, -500000, 887271, -887271, MIN_TICK, MAX_TICK}

\* The ticks test_tick_bounds_validation rejects.
InvalidTicks == {MIN_TICK - 1, MAX_TICK + 1, -2147483647 - 1, 2147483647}

\* The ticks that take one row of TICK_MASKS each.
MaskTicks == UNION {{Pow2(k), -Pow2(k)} : k \in 1..Len(TICK_MASKS)}

Ticks == GoldenTicks \cup InvalidTicks \cup MaskTicks

\* The ticks Python calls get_sqrt_ratio_at_tick with.
PyTicks == {MIN_TICK, -1, 0, MAX_TICK} \cup InvalidTicks

\* The least tick of Ticks above t that the encoder accepts.
NextTick(t) ==
    CHOOSE u \in Ticks :
        /\ u > t /\ TickInRange(u)
        /\ \A v \in Ticks : (v > t /\ TickInRange(v)) => u <= v

\* Prices a caller passes on its own: zero, the largest 160-bit value, and
\* the powers of 256.
DirectPrices ==
    {Zeros(BYTES_PER_WORD), Word([k \in 1..BYTES_PER_WORD |-> 255], BYTES_PER_WORD)}
    \cup {Word([k \in 1..BYTES_PER_WORD |-> IF k = j THEN 1 ELSE 0], BYTES_PER_WORD) :
            j \in 1..BYTES_PER_WORD}

\* v + d for a natural v given by its bytes: the bytes in one byte more
\* than v has (val), or none when the sum is negative.
Moved(v, d) ==
    LET w == Resize(v, Len(v) + 1)
        m == NatBytes(IF d < 0 THEN -d ELSE d, Len(v) + 1)
    IN  IF d >= 0 THEN Ok(wrapping_add(w, m))
        ELSE IF Lt(w, m) THEN NoResult
        ELSE Ok(wrapping_sub(w, m))

\* The ways Python can pass the natural v: as an int, or as big-endian
\* bytes of any length that holds it, up to BYTES_PER_WORD + MaxExtra.
Forms(v) ==
    {PyInt(Canonical(v))}
    \cup {PyBytes(Reverse(Resize(Canonical(v), n))) :
            n \in SigLen(v)..(BYTES_PER_WORD + MaxExtra)}

\* 2^160 + 2^96: a value of 161 bits whose low 160 bits are the price of
\* tick 0.
WidePrice ==
    Word([k \in 1..(BYTES_PER_WORD + 1) |-> IF k \in {13, BYTES_PER_WORD + 1} THEN 1 ELSE 0],
         BYTES_PER_WORD + 1)

\* Python arguments of get_tick_at_sqrt_ratio that do not come from the
\* encoder: 2^160 as an int, None, 2^160 + 2^96 as an int and as bytes,
\* and the forms of zero and of 2^160 - 1.
DirectObjects ==
    {PyInt(Word([k \in 1..(BYTES_PER_WORD + 1) |-> IF k = BYTES_PER_WORD + 1 THEN 1 ELSE 0],
                BYTES_PER_WORD + 1)),
     PyNone, PyInt(WidePrice), PyBytes(Reverse(WidePrice))}
    \cup Forms(Zeros(BYTES_PER_WORD))
    \cup Forms(Word([k \in 1..BYTES_PER_WORD |-> 255], BYTES_PER_WORD))

Init ==
    /\ pc = "idle"
    /\ entry = "internal"
    /\ caller = "none"
    /\ tick_a = 0
    /\ ratio_a = NoResult
    /\ tick_b = 0
    /\ ratio_b = NoResult
    /\ tick = 0
    /\ abs_tick = 0
    /\ ratio = <<>>
    /\ i = 0
    /\ enc_result = NoResult
    /\ py_value = NoResult
    /\ base = "none"
    /\ delta = 0
    /\ py_obj = PyNone
    /\ sqrt_price_x96 = <<>>
    /\ r = <<>>
    /\ msb = <<>>
    /\ f = <<>>
    /\ log_2 = <<>>
    /\ tick_low = <<>>
    /\ tick_high = <<>>
    /\ dec_result = NoResult
    /\ py_result = NoResult
    /\ alloy_entry = "rust"
    /\ alloy_caller = "none"
    /\ alloy_tick = 0
    /\ alloy_abs_tick = <<>>
    /\ alloy_ratio = <<>>
    /\ alloy_i = 0
    /\ alloy_enc_result = NoResult
    /\ alloy_price = <<>>
    /\ alloy_r = <<>>
    /\ alloy_msb = <<>>
    /\ alloy_f = <<>>
    /\ alloy_log_2 = <<>>
    /\ alloy_tick_low = <<>>
    /\ alloy_tick_high = <<>>
    /\ alloy_dec_result = NoResult
    /\ alloy_py_arg = PyNone
    /\ alloy_py_result = NoResult

---------------------------------------------------------------------------
(* get_sqrt_ratio_at_tick_internal and its callers.                        *)

\* A caller calls get_sqrt_ratio_at_tick_internal(t), or Python calls
\* get_sqrt_ratio_at_tick(t), which calls it in turn, for a tick t.
CallEncoder ==
    /\ pc = "idle"
    /\ \E t \in Ticks, e \in {"internal", "python"} :
         /\ e = "python" => t \in PyTicks
         /\ tick_a' = t /\ tick' = t /\ entry' = e
    /\ caller' = "a"
    /\ pc' = "enc_check"
    /\ UNCHANGED <<ratio_a, tick_b, ratio_b, abs_tick, ratio, i, enc_result,
                   py_value, base, delta, py_obj, sqrt_price_x96, dec_locals,
                   dec_result, py_result>>
    /\ UNCHANGED alloy_vars

\* The range check, and the seed of ratio.
EncCheck ==
    /\ pc = "enc_check"
    /\ IF ~TickInRange(tick)
       THEN /\ enc_result' = InvalidTick(tick)
            /\ pc' = "enc_ret"
            /\ UNCHANGED <<abs_tick, ratio, i>>
       ELSE /\ abs_tick' = unsigned_abs(tick)
            /\ ratio' = RatioSeed(unsigned_abs(tick))
            /\ i' = 1
            /\ pc' = "enc_loop"
            /\ UNCHANGED enc_result
    /\ UNCHANGED <<entry, caller, test_locals, tick, py_value, base, delta,
                   py_obj, sqrt_price_x96, dec_locals, dec_result, py_result>>
    /\ UNCHANGED alloy_vars

\* One iteration of the loop over TICK_MASKS.
EncLoop ==
    /\ pc = "enc_loop"
    /\ ratio' = RatioStep(abs_tick, ratio, i)
    /\ IF i = Len(TICK_MASKS)
       THEN pc' = "enc_invert" /\ i' = 0
       ELSE pc' = "enc_loop" /\ i' = i + 1
    /\ UNCHANGED <<entry, caller, test_locals, tick, abs_tick, enc_result,
                   py_value, base, delta, py_obj, sqrt_price_x96, dec_locals,
                   dec_result, py_result>>
    /\ UNCHANGED alloy_vars

\* The inversion for a positive tick.
EncInvert ==
    /\ pc = "enc_invert"
    /\ LET inv == RatioInvert(tick, ratio)
       IN  IF inv.tag = "Ok"
           THEN ratio' = inv.val /\ pc' = "enc_narrow" /\ UNCHANGED enc_result
           ELSE enc_result' = inv /\ pc' = "enc_ret" /\ UNCHANGED ratio
    /\ UNCHANGED <<entry, caller, test_locals, tick, abs_tick, i, py_value,
                   base, delta, py_obj, sqrt_price_x96, dec_locals, dec_result,
                   py_result>>
    /\ UNCHANGED alloy_vars

\* The narrowing, and the return.
EncNarrow ==
    /\ pc = "enc_narrow"
    /\ enc_result' = Narrow(ratio)
    /\ pc' = "enc_ret"
    /\ UNCHANGED <<entry, caller, test_locals, tick, abs_tick, ratio, i,
                   py_value, base, delta, py_obj, sqrt_price_x96, dec_locals,
                   dec_result, py_result>>
    /\ UNCHANGED alloy_vars

\* The caller has its tick's result: let ratio_a = ...(tick_a).
ReturnA ==
    /\ pc = "enc_ret"
    /\ caller = "a"
    /\ entry = "internal"
    /\ enc_result.tag # "Panic"
    /\ ratio_a' = enc_result
    /\ pc' = "have_a"
    /\ UNCHANGED <<entry, caller, tick_a, tick_b, ratio_b, enc_frame, py_value,
                   base, delta, py_obj, sqrt_price_x96, dec_locals, dec_result,
                   py_result>>
    /\ UNCHANGED alloy_vars

\* get_sqrt_ratio_at_tick after the internal call: the error becomes a
\* PyValueError, the price a Python int by way of its 20 big-endian bytes.
WrapEncoder ==
    /\ pc = "enc_ret"
    /\ caller = "a"
    /\ entry = "python"
    /\ enc_result.tag # "Panic"
    /\ ratio_a' = enc_result
    /\ py_value' = IF enc_result.tag = "Ok"
                   THEN Ok(int_from_bytes_big(to_be_bytes(enc_result.val)))
                   ELSE PyErrFrom(enc_result)
    /\ pc' = "py_enc_ret"
    /\ UNCHANGED <<entry, caller, tick_a, tick_b, ratio_b, enc_frame, base,
                   delta, py_obj, sqrt_price_x96, dec_locals, dec_result,
                   py_result>>
    /\ UNCHANGED alloy_vars

\* The caller encodes a second, larger tick, as the monotonicity test
\* does: the next tick, or the next of the ticks tried.
CallEncoderB ==
    /\ pc = "have_a"
    /\ ratio_a.tag = "Ok"
    /\ \E t \in {tick_a + 1} \cup (IF tick_a < MAX_TICK THEN {NextTick(tick_a)} ELSE {}) :
         tick_b' = t /\ tick' = t
    /\ caller' = "b"
    /\ pc' = "enc_check"
    /\ UNCHANGED <<entry, tick_a, ratio_a, ratio_b, abs_tick, ratio, i,
                   enc_result, py_value, base, delta, py_obj, sqrt_price_x96,
                   dec_locals, dec_result, py_result>>
    /\ UNCHANGED alloy_vars

\* let ratio_b = ...(tick_b).
ReturnB ==
    /\ pc = "enc_ret"
    /\ caller = "b"
    /\ enc_result.tag # "Panic"
    /\ ratio_b' = enc_result
    /\ pc' = "have_b"
    /\ UNCHANGED <<entry, caller, tick_a, ratio_a, tick_b, enc_frame, py_value,
                   base, delta, py_obj, sqrt_price_x96, dec_locals, dec_result,
                   py_result>>
    /\ UNCHANGED alloy_vars

---------------------------------------------------------------------------
(* get_tick_at_sqrt_ratio_internal and its callers.                        *)

\* A caller decodes a price at or next to the ones the encoder returned:
\* ratio_a moved by d, or ratio_b moved down by d, for tick_b = tick_a + 1.
Roundtrip ==
    /\ pc = "have_b"
    /\ tick_b = tick_a + 1
    /\ \E s \in {"a", "b"}, d \in (-MaxDelta)..MaxDelta :
         LET res == IF s = "a" THEN ratio_a ELSE ratio_b
         IN  /\ res.tag = "Ok"
             /\ s = "b" => d < 0
             /\ LET p == Moved(res.val, d)
                IN  /\ p.tag = "Ok"
                    /\ SigLen(p.val) <= BYTES_PER_WORD
                    /\ sqrt_price_x96' = Resize(p.val, BYTES_PER_WORD)
             /\ base' = s
             /\ delta' = d
    /\ pc' = "dec_check"
    /\ UNCHANGED <<entry, caller, test_locals, enc_frame, py_value, py_obj,
                   dec_locals, dec_result, py_result>>
    /\ UNCHANGED alloy_vars

\* Python passes the int get_sqrt_ratio_at_tick returned, moved by d, to
\* get_tick_at_sqrt_ratio, as an int or as bytes.
PyRoundtrip ==
    /\ pc = "py_enc_ret"
    /\ py_value.tag = "Ok"
    /\ \E d \in (-MaxDelta)..MaxDelta :
         LET v == Moved(py_value.val.val, d)
         IN  /\ v.tag = "Ok"
             /\ \E obj \in Forms(v.val) : py_obj' = obj
             /\ delta' = d
    /\ base' = "a"
    /\ pc' = "py_dec_call"
    /\ UNCHANGED <<entry, caller, test_locals, enc_frame, py_value,
                   sqrt_price_x96, dec_locals, dec_result, py_result>>
    /\ UNCHANGED alloy_vars

\* A caller calls get_tick_at_sqrt_ratio_internal(p).
CallDecoder ==
    /\ pc = "idle"
    /\ entry' = "internal"
    /\ \E p \in DirectPrices : sqrt_price_x96' = p
    /\ pc' = "dec_check"
    /\ UNCHANGED <<caller, test_locals, enc_frame, py_value, base, delta,
                   py_obj, dec_locals, dec_result, py_result>>
    /\ UNCHANGED alloy_vars

\* Python calls get_tick_at_sqrt_ratio(obj).
PyCallDecoder ==
    /\ pc = "idle"
    /\ entry' = "python"
    /\ \E obj \in DirectObjects : py_obj' = obj
    /\ pc' = "py_dec_call"
    /\ UNCHANGED <<caller, test_locals, enc_frame, py_value, base, delta,
                   sqrt_price_x96, dec_locals, dec_result, py_result>>
    /\ UNCHANGED alloy_vars

\* let sqrt_price = extract_u160(sqrt_price_x96)?
ExtractU160 ==
    /\ pc = "py_dec_call"
    /\ LET u == extract_u160(py_obj)
       IN  IF u.tag = "Ok"
           THEN sqrt_price_x96' = u.val /\ pc' = "dec_check" /\ UNCHANGED py_result
           ELSE py_result' = u /\ pc' = "py_ret" /\ UNCHANGED sqrt_price_x96
    /\ UNCHANGED <<entry, caller, test_locals, enc_frame, py_value, base,
                   delta, py_obj, dec_locals, dec_result>>
    /\ UNCHANGED alloy_vars

\* The range check, and the start of the msb loop.  The wrapper does not
\* use its argument object again, and the state lets go of it.
DecCheck ==
    /\ pc = "dec_check"
    /\ IF ~PriceInRange(sqrt_price_x96)
       THEN /\ dec_result' = SqrtRatioOutOfBounds
            /\ pc' = "dec_ret"
            /\ UNCHANGED <<ratio, r, msb, i>>
       ELSE /\ ratio' = RatioOfPrice(sqrt_price_x96)
            /\ r' = RatioOfPrice(sqrt_price_x96)
            /\ msb' = U256_ZERO
            /\ i' = 1
            /\ pc' = "dec_msb"
            /\ UNCHANGED dec_result
    /\ py_obj' = PyNone
    /\ UNCHANGED <<entry, caller, test_locals, tick, abs_tick, enc_result,
                   py_value, base, delta, sqrt_price_x96, f, log_2, tick_low,
                   tick_high, py_result>>
    /\ UNCHANGED alloy_vars

\* One iteration of the loop over FACTOR_SHIFT_VALUES.
DecMsb ==
    /\ pc = "dec_msb"
    /\ LET s == MsbStep(r, msb, i)
       IN  f' = s.f /\ msb' = s.msb /\ r' = s.r
    /\ IF i = Len(FACTOR_SHIFT_VALUES)
       THEN pc' = "dec_norm" /\ i' = 0
       ELSE pc' = "dec_msb" /\ i' = i + 1
    /\ UNCHANGED <<entry, caller, test_locals, tick, abs_tick, ratio,
                   enc_result, py_value, base, delta, py_obj, sqrt_price_x96,
                   log_2, tick_low, tick_high, dec_result, py_result>>
    /\ UNCHANGED alloy_vars

\* The block that normalises r and seeds log_2.  The signed subtraction
\* panics on overflow in a build with debug assertions and wraps in one
\* without.
DecNorm ==
    /\ pc = "dec_norm"
    /\ LET seed == Log2Seed(msb)
       IN  \E debug_assertions \in BOOLEAN :
             IF seed.ovf /\ debug_assertions
             THEN /\ dec_result' = Panic("overflow")
                  /\ pc' = "dec_ret"
                  /\ UNCHANGED <<r, log_2, i>>
             ELSE /\ r' = Normalise(ratio, msb)
                  /\ log_2' = seed.val
                  /\ i' = 63
                  /\ pc' = "dec_log"
                  /\ UNCHANGED dec_result
    /\ UNCHANGED <<entry, caller, test_locals, tick, abs_tick, ratio,
                   enc_result, py_value, base, delta, py_obj, sqrt_price_x96,
                   msb, f, tick_low, tick_high, py_result>>
    /\ UNCHANGED alloy_vars

\* One iteration of the loop over the bit positions 63 down to 51.
DecLog ==
    /\ pc = "dec_log"
    /\ LET s == LogStep(r, log_2, i, FALSE)
       IN  f' = s.f /\ log_2' = s.log_2 /\ r' = s.r
    /\ IF i = 51
       THEN pc' = "dec_last" /\ i' = 0
       ELSE pc' = "dec_log" /\ i' = i - 1
    /\ UNCHANGED <<entry, caller, test_locals, tick, abs_tick, ratio,
                   enc_result, py_value, base, delta, py_obj, sqrt_price_x96,
                   msb, tick_low, tick_high, dec_result, py_result>>
    /\ UNCHANGED alloy_vars

\* The step at bit position 50, after the loop.
DecLast ==
    /\ pc = "dec_last"
    /\ LET s == LogStep(r, log_2, 50, TRUE)
       IN  f' = s.f /\ log_2' = s.log_2 /\ r' = s.r
    /\ pc' = "dec_ticks"
    /\ UNCHANGED <<entry, caller, test_locals, tick, abs_tick, ratio, i,
                   enc_result, py_value, base, delta, py_obj, sqrt_price_x96,
                   msb, tick_low, tick_high, dec_result, py_result>>
    /\ UNCHANGED alloy_vars

\* The two candidates.  The signed operations panic on overflow in a build
\* with debug assertions and wrap in one without; a candidate that does
\* not fit I24 panics.
DecTicks ==
    /\ pc = "dec_ticks"
    /\ \E c \in {Candidates(log_2)} :
           \E debug_assertions \in BOOLEAN :
             IF c.ovf /\ debug_assertions
             THEN /\ dec_result' = Panic("overflow")
                  /\ pc' = "dec_ret"
                  /\ UNCHANGED <<tick_low, tick_high>>
             ELSE IF c.low.tag # "Ok" \/ c.high.tag # "Ok"
             THEN /\ dec_result' = (IF c.low.tag # "Ok" THEN c.low ELSE c.high)
                  /\ pc' = "dec_ret"
                  /\ UNCHANGED <<tick_low, tick_high>>
             ELSE /\ tick_low' = c.low.val
                  /\ tick_high' = c.high.val
                  /\ pc' = "dec_choose"
                  /\ UNCHANGED dec_result
    /\ UNCHANGED <<entry, caller, test_locals, enc_frame, py_value, base,
                   delta, py_obj, sqrt_price_x96, r, msb, f, log_2, py_result>>
    /\ UNCHANGED alloy_vars

\* if tick_low == tick_high { return Ok(tick_low) }; otherwise the call
\* get_sqrt_ratio_at_tick_internal(tick_high.as_i32()).
DecChoose ==
    /\ pc = "dec_choose"
    /\ IF tick_low = tick_high
       THEN /\ dec_result' = Ok(tick_low)
            /\ pc' = "dec_ret"
            /\ UNCHANGED <<caller, tick>>
       ELSE /\ tick' = as_i32(tick_high)
            /\ caller' = "decoder"
            /\ pc' = "enc_check"
            /\ UNCHANGED dec_result
    /\ UNCHANGED <<entry, test_locals, abs_tick, ratio, i, enc_result,
                   py_value, base, delta, py_obj, sqrt_price_x96, dec_locals,
                   py_result>>
    /\ UNCHANGED alloy_vars

\* The nested call's return: its error is the decoder's (the ? operator),
\* and its price decides between the candidates.
TieBreak ==
    /\ pc = "enc_ret"
    /\ caller = "decoder"
    /\ dec_result' = IF enc_result.tag # "Ok" THEN enc_result
                     ELSE Choose(enc_result.val, sqrt_price_x96, tick_low, tick_high)
    /\ pc' = "dec_ret"
    /\ UNCHANGED <<entry, caller, test_locals, enc_frame, py_value, base,
                   delta, py_obj, sqrt_price_x96, dec_locals, py_result>>
    /\ UNCHANGED alloy_vars

\* get_tick_at_sqrt_ratio after the internal call: the error becomes a
\* PyValueError, the tick an i32.
WrapDecoder ==
    /\ pc = "dec_ret"
    /\ entry = "python"
    /\ dec_result.tag # "Panic"
    /\ py_result' = IF dec_result.tag = "Ok"
                    THEN Ok(as_i32(dec_result.val))
                    ELSE PyErrFrom(dec_result)
    /\ pc' = "py_ret"
    /\ UNCHANGED <<entry, caller, test_locals, enc_frame, py_value, base,
                   delta, py_obj, sqrt_price_x96, dec_locals, dec_result>>
    /\ UNCHANGED alloy_vars

---------------------------------------------------------------------------
(* lib.rs: get_sqrt_ratio_at_tick_alloy and its callers.                   *)

\* The caller that has the result of get_sqrt_ratio_at_tick_internal for
\* tick_a calls get_sqrt_ratio_at_tick_alloy(tick_a), or Python calls
\* get_sqrt_ratio_at_tick_alloy_translator(tick_a), which calls it in turn.
CallAlloyEncoder ==
    /\ pc = "have_a"
    /\ \E e \in {"rust", "python"} :
         /\ e = "python" => tick_a \in PyTicks
         /\ alloy_entry' = e
    /\ alloy_tick' = tick_a
    /\ alloy_caller' = "test"
    /\ pc' = "alloy_enc_seed"
    /\ UNCHANGED <<tick_math_vars, alloy_abs_tick, alloy_ratio, alloy_i,
                   alloy_enc_result, alloy_dec_locals, alloy_py>>

\* abs_tick and the seed of ratio: no check of the tick comes first.
AlloyEncSeed ==
    /\ pc = "alloy_enc_seed"
    /\ alloy_abs_tick' = unsigned_abs_alloy(alloy_tick)
    /\ alloy_ratio' = RatioSeed_alloy(unsigned_abs_alloy(alloy_tick))
    /\ alloy_i' = 1
    /\ pc' = "alloy_enc_loop"
    /\ UNCHANGED <<tick_math_vars, alloy_entry, alloy_caller, alloy_tick,
                   alloy_enc_result, alloy_dec_locals, alloy_py>>

\* One iteration of the loop over the table.
AlloyEncLoop ==
    /\ pc = "alloy_enc_loop"
    /\ alloy_ratio' = RatioStep_alloy(alloy_abs_tick, alloy_ratio, alloy_i)
    /\ IF alloy_i = Len(TICK_MASKS_alloy)
       THEN pc' = "alloy_enc_invert" /\ alloy_i' = 0
       ELSE pc' = "alloy_enc_loop" /\ alloy_i' = alloy_i + 1
    /\ UNCHANGED <<tick_math_vars, alloy_entry, alloy_caller, alloy_tick,
                   alloy_abs_tick, alloy_enc_result, alloy_dec_locals, alloy_py>>

\* The inversion for a positive tick.
AlloyEncInvert ==
    /\ pc = "alloy_enc_invert"
    /\ LET inv == RatioInvert_alloy(alloy_tick, alloy_ratio)
       IN  IF inv.tag = "Ok"
           THEN /\ alloy_ratio' = inv.val
                /\ pc' = "alloy_enc_narrow"
                /\ UNCHANGED alloy_enc_result
           ELSE /\ alloy_enc_result' = inv
                /\ pc' = "alloy_enc_ret"
                /\ UNCHANGED alloy_ratio
    /\ UNCHANGED <<tick_math_vars, alloy_entry, alloy_caller, alloy_tick,
                   alloy_abs_tick, alloy_i, alloy_dec_locals, alloy_py>>

\* The narrowing, and the return: a price, or the panic of to::<U160>().
AlloyEncNarrow ==
    /\ pc = "alloy_enc_narrow"
    /\ alloy_enc_result' = Narrow_alloy(alloy_ratio)
    /\ pc' = "alloy_enc_ret"
    /\ UNCHANGED <<tick_math_vars, alloy_entry, alloy_caller, alloy_tick,
                   alloy_abs_tick, alloy_ratio, alloy_i, alloy_dec_locals,
                   alloy_py>>

\* get_sqrt_ratio_at_tick_alloy_translator after the call: the price as a
\* BigUint by way of its 20 big-endian bytes.  A panic passes through the
\* translator to Python.
WrapAlloyEncoder ==
    /\ pc = "alloy_enc_ret"
    /\ alloy_caller = "test"
    /\ alloy_entry = "python"
    /\ alloy_py_result' = IF alloy_enc_result.tag = "Ok"
                          THEN Ok(BigUintOfPrice(alloy_enc_result.val))
                          ELSE alloy_enc_result
    /\ pc' = "alloy_py_ret"
    /\ UNCHANGED <<tick_math_vars, alloy_entry, alloy_caller, alloy_enc_frame,
                   alloy_dec_locals, alloy_py_arg>>

---------------------------------------------------------------------------
(* lib.rs: get_tick_at_sqrt_ratio_alloy and its callers.  ratio shares     *)
(* alloy_ratio, and the loops alloy_i, with the encoder's frame.           *)

\* The caller that has the result of get_tick_at_sqrt_ratio_internal for a
\* price calls get_tick_at_sqrt_ratio_alloy with the same price.
CallAlloyDecoder ==
    /\ pc = "dec_ret"
    /\ entry = "internal"
    /\ dec_result.tag # "Panic"
    /\ alloy_entry' = "rust"
    /\ alloy_price' = sqrt_price_x96
    /\ pc' = "alloy_dec_assert"
    /\ UNCHANGED <<tick_math_vars, alloy_caller, alloy_enc_frame, alloy_r,
                   alloy_msb, alloy_f, alloy_log_2, alloy_tick_low,
                   alloy_tick_high, alloy_dec_result, alloy_py>>

\* Python, after get_tick_at_sqrt_ratio returned, calls
\* get_tick_at_sqrt_ratio_alloy_translator with the same number as an int:
\* the int or the bytes that extract_u160 refused, or the price it gave.
CallAlloyTranslator ==
    /\ pc = "py_ret"
    /\ \/ py_obj.kind = "int" /\ alloy_py_arg' = py_obj
       \/ py_obj.kind = "bytes" /\ alloy_py_arg' = PyInt(Canonical(Reverse(py_obj.val)))
       \/ /\ py_obj.kind = "none"
          /\ dec_result # NoResult
          /\ alloy_py_arg' = PyInt(Canonical(sqrt_price_x96))
    /\ alloy_entry' = "python"
    /\ pc' = "alloy_py_dec_call"
    /\ UNCHANGED <<tick_math_vars, alloy_caller, alloy_enc_frame,
                   alloy_dec_locals, alloy_py_result>>

\* The translator's conversion of its argument to a U160.
AlloyExtract ==
    /\ pc = "alloy_py_dec_call"
    /\ LET u == PriceOfBigUint(alloy_py_arg.val)
       IN  IF u.tag = "Ok"
           THEN /\ alloy_price' = u.val
                /\ pc' = "alloy_dec_assert"
                /\ UNCHANGED alloy_py_result
           ELSE /\ alloy_py_result' = u
                /\ pc' = "alloy_py_ret"
                /\ UNCHANGED alloy_price
    /\ UNCHANGED <<tick_math_vars, alloy_entry, alloy_caller, alloy_enc_frame,
                   alloy_r, alloy_msb, alloy_f, alloy_log_2, alloy_tick_low,
                   alloy_tick_high, alloy_dec_result, alloy_py_arg>>

\* The assertion, which panics, and the start of the msb loop.
AlloyDecAssert ==
    /\ pc = "alloy_dec_assert"
    /\ IF ~PriceAsserted_alloy(alloy_price)
       THEN /\ alloy_dec_result' = Panic("assertion failed")
            /\ pc' = "alloy_dec_ret"
            /\ UNCHANGED <<alloy_ratio, alloy_r, alloy_msb, alloy_i>>
       ELSE /\ alloy_ratio' = RatioOfPrice_alloy(alloy_price)
            /\ alloy_r' = RatioOfPrice_alloy(alloy_price)
            /\ alloy_msb' = U256_ZERO
            /\ alloy_i' = 1
            /\ pc' = "alloy_dec_msb"
            /\ UNCHANGED alloy_dec_result
    /\ UNCHANGED <<tick_math_vars, alloy_entry, alloy_caller, alloy_tick,
                   alloy_abs_tick, alloy_enc_result, alloy_price, alloy_f,
                   alloy_log_2, alloy_tick_low, alloy_tick_high, alloy_py>>

\* One iteration of the loop over FACTOR_SHIFT_VALUES.
AlloyDecMsb ==
    /\ pc = "alloy_dec_msb"
    /\ LET s == MsbStep_alloy(alloy_r, alloy_msb, alloy_i)
       IN  alloy_f' = s.f /\ alloy_msb' = s.msb /\ alloy_r' = s.r
    /\ IF alloy_i = Len(FACTOR_SHIFT_VALUES_alloy)
       THEN pc' = "alloy_dec_norm" /\ alloy_i' = 0
       ELSE pc' = "alloy_dec_msb" /\ alloy_i' = alloy_i + 1
    /\ UNCHANGED <<tick_math_vars, alloy_entry, alloy_caller, alloy_tick,
                   alloy_abs_tick, alloy_ratio, alloy_enc_result, alloy_price,
                   alloy_log_2, alloy_tick_low, alloy_tick_high,
                   alloy_dec_result, alloy_py>>

\* The block that normalises r and seeds log_2.  The signed subtraction
\* panics on overflow in a build with debug assertions and wraps in one
\* without; unwrap() panics on the None of asl.
AlloyDecNorm ==
    /\ pc = "alloy_dec_norm"
    /\ LET seed == Log2Seed_alloy(alloy_msb)
       IN  \E debug_assertions \in BOOLEAN :
             IF (seed.ovf /\ debug_assertions) \/ seed.res.tag # "Ok"
             THEN /\ alloy_dec_result' =
                        (IF seed.ovf /\ debug_assertions THEN Panic("overflow")
                         ELSE seed.res)
                  /\ pc' = "alloy_dec_ret"
                  /\ UNCHANGED <<alloy_r, alloy_log_2, alloy_i>>
             ELSE /\ alloy_r' = Normalise_alloy(alloy_ratio, alloy_msb)
                  /\ alloy_log_2' = seed.res.val
                  /\ alloy_i' = 63
                  /\ pc' = "alloy_dec_log"
                  /\ UNCHANGED alloy_dec_result
    /\ UNCHANGED <<tick_math_vars, alloy_entry, alloy_caller, alloy_tick,
                   alloy_abs_tick, alloy_ratio, alloy_enc_result, alloy_price,
                   alloy_msb, alloy_f, alloy_tick_low, alloy_tick_high, alloy_py>>

\* One iteration of the loop over the bit positions 63 down to 51.
AlloyDecLog ==
    /\ pc = "alloy_dec_log"
    /\ LET s == LogStep_alloy(alloy_r, alloy_log_2, alloy_i, FALSE)
       IN  alloy_f' = s.f /\ alloy_log_2' = s.log_2 /\ alloy_r' = s.r
    /\ IF alloy_i = 51
       THEN pc' = "alloy_dec_last" /\ alloy_i' = 0
       ELSE pc' = "alloy_dec_log" /\ alloy_i' = alloy_i - 1
    /\ UNCHANGED <<tick_math_vars, alloy_entry, alloy_caller, alloy_tick,
                   alloy_abs_tick, alloy_ratio, alloy_enc_result, alloy_price,
                   alloy_msb, alloy_tick_low, alloy_tick_high,
                   alloy_dec_result, alloy_py>>

\* The step at bit position 50, after the loop.
AlloyDecLast ==
    /\ pc = "alloy_dec_last"
    /\ LET s == LogStep_alloy(alloy_r, alloy_log_2, 50, TRUE)
       IN  alloy_f' = s.f /\ alloy_log_2' = s.log_2 /\ alloy_r' = s.r
    /\ pc' = "alloy_dec_ticks"
    /\ UNCHANGED <<tick_math_vars, alloy_entry, alloy_caller, alloy_tick,
                   alloy_abs_tick, alloy_ratio, alloy_i, alloy_enc_result,
                   alloy_price, alloy_msb, alloy_tick_low, alloy_tick_high,
                   alloy_dec_result, alloy_py>>

\* What a conversion to I24 leaves in the variable: the value, or, when it
\* does not fit, either a panic or the truncated value.
I24Outcomes(c) ==
    IF c.tag = "Ok" THEN {c} ELSE {Panic("I24::from"), Ok(c.val)}

\* log_sqrt10001 and the two candidate ticks.  The signed operations panic
\* on overflow in a build with debug assertions and wrap in one without.
AlloyDecTicks ==
    /\ pc = "alloy_dec_ticks"
    /\ \E c \in {Candidates_alloy(alloy_log_2)} :
           \E debug_assertions \in BOOLEAN :
           \E lo \in I24Outcomes(c.low), hi \in I24Outcomes(c.high) :
             IF c.ovf /\ debug_assertions
             THEN /\ alloy_dec_result' = Panic("overflow")
                  /\ pc' = "alloy_dec_ret"
                  /\ UNCHANGED <<alloy_tick_low, alloy_tick_high>>
             ELSE IF lo.tag # "Ok" \/ hi.tag # "Ok"
             THEN /\ alloy_dec_result' = (IF lo.tag # "Ok" THEN lo ELSE hi)
                  /\ pc' = "alloy_dec_ret"
                  /\ UNCHANGED <<alloy_tick_low, alloy_tick_high>>
             ELSE /\ alloy_tick_low' = lo.val
                  /\ alloy_tick_high' = hi.val
                  /\ pc' = "alloy_dec_choose"
                  /\ UNCHANGED alloy_dec_result
    /\ UNCHANGED <<tick_math_vars, alloy_entry, alloy_caller, alloy_enc_frame,
                   alloy_price, alloy_r, alloy_msb, alloy_f, alloy_log_2,
                   alloy_py>>

\* if tick_low == tick_high { tick_low } else the nested call of
\* get_sqrt_ratio_at_tick_alloy(tick_high.as_i32()).
AlloyDecChoose ==
    /\ pc = "alloy_dec_choose"
    /\ IF alloy_tick_low = alloy_tick_high
       THEN /\ alloy_dec_result' = Ok(alloy_tick_low)
            /\ pc' = "alloy_dec_ret"
            /\ UNCHANGED <<alloy_tick, alloy_caller>>
       ELSE /\ alloy_tick' = as_i32(alloy_tick_high)
            /\ alloy_caller' = "decoder"
            /\ pc' = "alloy_enc_seed"
            /\ UNCHANGED alloy_dec_result
    /\ UNCHANGED <<tick_math_vars, alloy_entry, alloy_abs_tick, alloy_ratio,
                   alloy_i, alloy_enc_result, alloy_price, alloy_r, alloy_msb,
                   alloy_f, alloy_log_2, alloy_tick_low, alloy_tick_high,
                   alloy_py>>

\* The nested call returned: its panic unwinds through the decoder, its
\* price decides between the candidates.
AlloyTieBreak ==
    /\ pc = "alloy_enc_ret"
    /\ alloy_caller = "decoder"
    /\ alloy_dec_result' =
           (IF alloy_enc_result.tag = "Ok"
            THEN Ok(Choose_alloy(alloy_enc_result.val, alloy_price,
                                 alloy_tick_low, alloy_tick_high))
            ELSE alloy_enc_result)
    /\ pc' = "alloy_dec_ret"
    /\ UNCHANGED <<tick_math_vars, alloy_entry, alloy_caller, alloy_enc_frame,
                   alloy_price, alloy_r, alloy_msb, alloy_f, alloy_log_2,
                   alloy_tick_low, alloy_tick_high, alloy_py>>

\* get_tick_at_sqrt_ratio_alloy_translator returns Ok(tick.as_i32()); a
\* panic of the decoder unwinds through it.
WrapAlloyDecoder ==
    /\ pc = "alloy_dec_ret"
    /\ alloy_entry = "python"
    /\ alloy_py_result' =
           (IF alloy_dec_result.tag = "Ok"
            THEN Ok(as_i32(alloy_dec_result.val))
            ELSE alloy_dec_result)
    /\ pc' = "alloy_py_ret"
    /\ UNCHANGED <<tick_math_vars, alloy_entry, alloy_caller, alloy_enc_frame,
                   alloy_dec_locals, alloy_py_arg>>

Next ==
    \/ CallEncoder
    \/ EncCheck
    \/ EncLoop
    \/ EncInvert
    \/ EncNarrow
    \/ ReturnA
    \/ WrapEncoder
    \/ CallEncoderB
    \/ ReturnB
    \/ Roundtrip
    \/ PyRoundtrip
    \/ CallDecoder
    \/ PyCallDecoder
    \/ ExtractU160
    \/ DecCheck
    \/ DecMsb
    \/ DecNorm
    \/ DecLog
    \/ DecLast
    \/ DecTicks
    \/ DecChoose
    \/ TieBreak
    \/ WrapDecoder
    \/ CallAlloyEncoder
    \/ AlloyEncSeed
    \/ AlloyEncLoop
    \/ AlloyEncInvert
    \/ AlloyEncNarrow
    \/ WrapAlloyEncoder
    \/ CallAlloyDecoder
    \/ CallAlloyTranslator
    \/ AlloyExtract
    \/ AlloyDecAssert
    \/ AlloyDecMsb
    \/ AlloyDecNorm
    \/ AlloyDecLog
    \/ AlloyDecLast
    \/ AlloyDecTicks
    \/ AlloyDecChoose
    \/ AlloyTieBreak
    \/ WrapAlloyDecoder

Spec == Init /\ [][Next]_vars

---------------------------------------------------------------------------
(* The properties.  The numbers are the specification's: its tick domain   *)
(* [-887272, 887272] and its price domain [MIN_SQRT_RATIO, MAX_SQRT_RATIO). *)

MIN_SQRT_RATIO == U160("4295128739")
MAX_SQRT_RATIO == U160("1461446703485210103287273052203988822378723970342")

\* A tick of the specification's domain.
InTickDomain(t) == -887272 <= t /\ t <= 887272

\* A price of the specification's domain.
InPriceDomain(p) == Le(MIN_SQRT_RATIO, p) /\ Lt(p, MAX_SQRT_RATIO)

\* The decoder has returned to a caller that passed it the price the
\* encoder returned for tick_a, unchanged.
DecodedEncoded ==
    /\ pc = "dec_ret"
    /\ entry = "internal"
    /\ base = "a"
    /\ delta = 0

\* C1: round trip.  For every tick t of [-887272, 887272], decoding the
\* price the encoder returns for t succeeds and returns exactly t.
C1_RoundTrip ==
    DecodedEncoded =>
        /\ dec_result.tag = "Ok"
        /\ as_i32(dec_result.val) = tick_a

\* C2: floor semantics.  A price p with encode(t) <= p < encode(t + 1),
\* which is a price of the domain, decodes to t; as the encoder is strictly
\* increasing (C3), no other tick brackets p.
C2_Floor ==
    (/\ pc = "dec_ret"
     /\ tick_b = tick_a + 1
     /\ ratio_a.tag = "Ok"
     /\ ratio_b.tag = "Ok"
     /\ Le(ratio_a.val, sqrt_price_x96)
     /\ Lt(sqrt_price_x96, ratio_b.val))
    => /\ InPriceDomain(sqrt_price_x96)
       /\ dec_result.tag = "Ok"
       /\ as_i32(dec_result.val) = tick_a

\* The decoder returned tick_a for the last price below encode(tick_a + 1).
C2_Witness ==
    /\ pc = "dec_ret"
    /\ base = "b"
    /\ delta = -1
    /\ tick_a = 500000
    /\ dec_result.tag = "Ok"
    /\ as_i32(dec_result.val) = 500000

\* C3: strict monotonicity.  For ticks a < b of the domain, encode(a) <
\* encode(b): the caller's second tick is the larger, and so is its price.
C3_Monotonic ==
    (pc = "have_b" /\ InTickDomain(tick_b)) =>
        /\ tick_a < tick_b
        /\ ratio_a.tag = "Ok"
        /\ ratio_b.tag = "Ok"
        /\ Lt(ratio_a.val, ratio_b.val)

\* The caller has the prices of the two largest ticks.
C3_Witness ==
    /\ pc = "have_b"
    /\ tick_a = 887271
    /\ tick_b = 887272
    /\ ratio_b.tag = "Ok"

\* C4: tick rejection.  For a tick outside [-887272, 887272] the encoder
\* returns InvalidTick carrying that tick, and no price or panic; for a
\* tick inside it returns a price.
C4_TickRejection ==
    pc = "enc_ret" =>
        IF InTickDomain(tick)
        THEN enc_result.tag = "Ok" /\ Len(enc_result.val) = 20
        ELSE enc_result = [tag |-> "InvalidTick", val |-> tick]

\* The encoder rejected the largest 32-bit tick.
C4_Witness ==
    /\ pc = "enc_ret"
    /\ tick = 2147483647
    /\ enc_result.tag = "InvalidTick"

\* C5: price rejection.  The decoder returns SqrtRatioOutOfBounds, and no
\* tick, for a price below MIN_SQRT_RATIO or at or above MAX_SQRT_RATIO,
\* and for no price of [MIN_SQRT_RATIO, MAX_SQRT_RATIO).
C5_PriceRejection ==
    pc = "dec_ret" =>
        (dec_result = [tag |-> "SqrtRatioOutOfBounds", val |-> <<>>]
            <=> (Lt(sqrt_price_x96, MIN_SQRT_RATIO) \/ Le(MAX_SQRT_RATIO, sqrt_price_x96)))

\* The decoder rejected MAX_SQRT_RATIO itself.
C5_Witness ==
    /\ pc = "dec_ret"
    /\ sqrt_price_x96 = MAX_SQRT_RATIO
    /\ dec_result.tag = "SqrtRatioOutOfBounds"

GoldenVectors ==
    {<<MIN_TICK,     U160("4295128739")>>,
     <<MIN_TICK + 1, U160("4295343490")>>,
     <<MAX_TICK - 1, U160("1461373636630004318706518188784493106690254656249")>>,
     <<MAX_TICK,     U160("1461446703485210103287273052203988822378723970342")>>,
     <<0,            U160("79228162514264337593543950336")>>,
     <<1,            U160("79232123823359799118286999568")>>,
     <<-1,           U160("79224201403219477170569942574")>>,
     <<-100000,      U160("533968626430936354154228408")>>,
     <<-500000,      U160("1101692437043807371")>>,
     <<100000,       U160("11755562826496067164730007768450")>>,
     <<500000,       U160("5697689776495288729098254600827762987878")>>,
     <<10000,        U160("130621891405341611593710811006")>>,
     <<-10000,       U160("48055510970269007215549348797")>>,
     <<1000,         U160("83290069058676223003182343270")>>,
     <<-1000,        U160("75364347830767020784054125655")>>,
     <<100,          U160("79625275426524748796330556128")>>,
     <<-100,         U160("78833030112140176575862854579")>>,
     <<10,           U160("79267784519130042428790663799")>>,
     <<-10,          U160("79188560314459151373725315960")>>}

\* 2^96, the price of tick 0.
TwoTo96 == Word([k \in 1..20 |-> IF k = 13 THEN 1 ELSE 0], 20)

\* C7: golden vectors.  The encoder returns, bit for bit, the price of
\* each of the vectors; the price of tick 0 is 2^96.
C7_Golden ==
    pc = "enc_ret" =>
        /\ \A g \in GoldenVectors :
              g[1] = tick => enc_result = [tag |-> "Ok", val |-> g[2]]
        /\ tick = 0 => enc_result.val = TwoTo96

\* The encoder returned the vector's price for tick 500000.
C7_Witness ==
    /\ pc = "enc_ret"
    /\ tick = 500000
    /\ enc_result.tag = "Ok"
    /\ enc_result.val = U160("5697689776495288729098254600827762987878")

\* C8: the decoder at the domain's edges.  MIN_SQRT_RATIO decodes to
\* -887272, MAX_SQRT_RATIO - 1 to 887271, and every price of the domain to
\* a tick of [-887272, 887271].
C8_Edges ==
    (pc = "dec_ret" /\ InPriceDomain(sqrt_price_x96)) =>
        /\ dec_result.tag = "Ok"
        /\ -887272 <= as_i32(dec_result.val)
        /\ as_i32(dec_result.val) <= 887271
        /\ sqrt_price_x96 = MIN_SQRT_RATIO => as_i32(dec_result.val) = -887272
        /\ sqrt_price_x96 = wrapping_sub(MAX_SQRT_RATIO, NatBytes(1, 20))
              => as_i32(dec_result.val) = 887271

\* The decoder returned 887271 for MAX_SQRT_RATIO - 1.
C8_Witness ==
    /\ pc = "dec_ret"
    /\ Le(MAX_SQRT_RATIO, wrapping_add(sqrt_price_x96, NatBytes(1, 20)))
    /\ dec_result.tag = "Ok"
    /\ as_i32(dec_result.val) = 887271

\* C9: a single failure path.  For a price of the domain the decoder
\* returns a tick: neither candidate fails to fit the 24-bit tick type, no
\* operation panics, and the tick_high handed to the nested encoder call is
\* a tick of [-887272, 887272], so that the call returns a price.
C9_SingleFailurePath ==
    /\ (pc = "dec_ret" /\ dec_result.tag # "SqrtRatioOutOfBounds") => dec_result.tag = "Ok"
    /\ (pc = "dec_choose") => (Len(tick_low) = 3 /\ Len(tick_high) = 3)
    /\ (caller = "decoder" /\ pc = "enc_check") =>
          (tick_low # tick_high /\ tick = as_i32(tick_high) /\ InTickDomain(tick))
    /\ (caller = "decoder" /\ pc = "enc_ret") => enc_result.tag = "Ok"

\* The nested call returned a price for the largest tick, and the decoder
\* a tick.
C9_Witness ==
    /\ pc = "dec_ret"
    /\ caller = "decoder"
    /\ tick = 887272
    /\ enc_result.tag = "Ok"
    /\ dec_result.tag = "Ok"

\* The 160-bit value a Python argument denotes: an int's bytes, or a bytes
\* object's read from the right and padded with zeros on the left.
Denoted(obj) ==
    Word([k \in 1..20 |->
            IF k > Len(obj.val) THEN 0
            ELSE IF obj.kind = "int" THEN obj.val[k]
            ELSE obj.val[Len(obj.val) + 1 - k]], 20)

\* An int below 2^160, or a bytes object of length 0..20.
Denotes(obj) ==
    \/ obj.kind = "int" /\ \A k \in 1..Len(obj.val) : k > 20 => obj.val[k] = 0
    \/ obj.kind = "bytes" /\ Len(obj.val) <= 20

\* C10: lossless dual encoding.  extract_u160 gives the value v < 2^160 of
\* its argument, whether an int or big-endian bytes of length 0..20, and
\* fails for neither; given the int get_sqrt_ratio_at_tick returned, in
\* either form, it gives the price the encoder returned.
C10_Lossless ==
    /\ (pc = "dec_check" /\ entry = "python") =>
          /\ Denotes(py_obj)
          /\ sqrt_price_x96 = Denoted(py_obj)
          /\ (base = "a" /\ delta = 0) => sqrt_price_x96 = ratio_a.val
    /\ (pc = "py_ret" /\ dec_result.tag = "None") => ~Denotes(py_obj)

\* extract_u160 was given the encoder's price as bytes shorter than 20.
C10_Witness ==
    /\ pc = "dec_check"
    /\ entry = "python"
    /\ base = "a"
    /\ delta = 0
    /\ py_obj.kind = "bytes"
    /\ Len(py_obj.val) < 20
    /\ sqrt_price_x96 = ratio_a.val

\* An argument too wide for a price: a bytes object of more than 20 bytes,
\* or an int of more than 160 bits.
TooWide(obj) ==
    \/ obj.kind = "bytes" /\ Len(obj.val) > 20
    \/ obj.kind = "int" /\ Len(obj.val) > 20

\* C11: over-wide prices are rejected, never truncated.  The decoder's
\* range check is never entered with an argument too wide; for such an
\* argument get_tick_at_sqrt_ratio returns the ValueError of extract_u160,
\* no price was converted and no tick computed.
C11_WideRejected ==
    /\ (pc = "dec_check" /\ entry = "python") => ~TooWide(py_obj)
    /\ (pc = "py_ret" /\ TooWide(py_obj)) =>
          /\ py_result.tag = "PyValueError"
          /\ py_result.val \in {"Sqrt price X96 is too large (exceeds 20 bytes)",
                                "Sqrt price X96 is too large (exceeds 160 bits)"}
          /\ sqrt_price_x96 = <<>>
          /\ dec_result = NoResult
          /\ tick_low = <<>> /\ tick_high = <<>>

\* get_tick_at_sqrt_ratio returned for 21 bytes whose low 20 are a price
\* of the domain.
C11_Witness ==
    /\ pc = "py_ret"
    /\ py_obj.kind = "bytes"
    /\ Len(py_obj.val) = 21
    /\ InPriceDomain(Denoted(py_obj))
    /\ py_result.tag = "PyValueError"

---------------------------------------------------------------------------
(* The crate root (lib.rs).                                                *)

\* A result that is an ordinary error: neither a value nor a panic.
Refused(res) == res.tag \notin {"Ok", "Panic", "None"}

\* A call of get_sqrt_ratio_at_tick_alloy by a caller other than the
\* decoder has returned or unwound.
AlloyEncoded == pc = "alloy_enc_ret" /\ alloy_caller = "test"

\* A call of get_sqrt_ratio_at_tick_alloy_translator has returned or unwound.
AlloyPyEncoded == pc = "alloy_py_ret" /\ alloy_py_arg.kind = "none"

\* A call of get_tick_at_sqrt_ratio_alloy_translator has returned or unwound.
AlloyPyDecoded == pc = "alloy_py_ret" /\ alloy_py_arg.kind = "int"

\* C12: the entry points of lib.rs obey the validation contract.  For a
\* tick outside [-887272, 887272] get_sqrt_ratio_at_tick_alloy and its
\* translator return no price, and for a price outside
\* [MIN_SQRT_RATIO, MAX_SQRT_RATIO) or wider than 20 bytes
\* get_tick_at_sqrt_ratio_alloy and its translator return no tick; each
\* time the caller gets an ordinary error, not a panic.
C12_AlloyValidation ==
    /\ AlloyEncoded /\ ~InTickDomain(alloy_tick) => Refused(alloy_enc_result)
    /\ AlloyPyEncoded /\ ~InTickDomain(alloy_tick) => Refused(alloy_py_result)
    /\ pc = "alloy_dec_ret" /\ ~InPriceDomain(alloy_price) =>
           Refused(alloy_dec_result)
    /\ AlloyPyDecoded /\ (TooWide(alloy_py_arg) \/ ~InPriceDomain(Denoted(alloy_py_arg))) =>
           Refused(alloy_py_result)

---------------------------------------------------------------------------
(* The steps of the decoder.                                               *)

\* msb after the loop over FACTOR_SHIFT_VALUES from row k on.  Once r is
\* zero no row is below it, and msb stays as it is.
RECURSIVE MsbLoop(_, _, _)
MsbLoop(r_, msb_, k) ==
    IF k > Len(FACTOR_SHIFT_VALUES) THEN msb_
    ELSE LET s == MsbStep(r_, msb_, k)
         IN  IF IsZero(s.r) THEN s.msb ELSE MsbLoop(s.r, s.msb, k + 1)

\* m is the index of the highest set bit of x: 2^m <= x < 2^(m+1).
HighestBit(x, m) == Shr(x, to_usize(m)) = NatBytes(1, 32)

\* Values the loop is given beside the ratio of an accepted price: the
\* ratio 64 bits higher, the price itself, the ratio's top 16 bits, and 1.
MsbInputs ==
    {ratio, Shl(ratio, 64), Shr(ratio, 32), Shr(ratio, to_usize(msb) - 15),
     Shr(ratio, to_usize(msb))}

\* C13: magnitude finder.  After the 8 steps of the loop over
\* FACTOR_SHIFT_VALUES msb is the index of the highest set bit of
\* ratio = price << 32, 2^msb <= ratio < 2^(msb+1), for every accepted
\* price; the loop gives the highest set bit of every nonzero value.
C13_Magnitude ==
    pc = "dec_norm" =>
        /\ \A k \in 2..32 : msb[k] = 0
        /\ HighestBit(ratio, msb)
        /\ \A x \in MsbInputs :
              /\ ~IsZero(x)
              /\ HighestBit(x, MsbLoop(x, U256_ZERO, 1))

\* The loop has ended for a price of 160 significant bits and for one of 33.
C13_Witness ==
    /\ pc = "dec_norm"
    /\ to_usize(msb) \in {191, 64}
    /\ ratio[5] # 0

\* a * b is below 2^256: the product taken in 512 bits has no high half.
ProductFits(a, b) == SigLen(wrapping_mul(Resize(a, 64), Resize(b, 64))) <= 32

\* Bits 0..n of the word a are zero.
LowBitsZero(a, n) == IsZero(Shl(a, 8 * Len(a) - 1 - n))

\* A flag: the word 0 or the word 1.
IsFlag(a) == a \in {U256_ZERO, NatBytes(1, 32)}

\* C14: log2 approximator.  For every accepted price, after normalisation
\* and at the start of each of the 14 refinement steps (bit positions 63
\* down to 51, then 50), 2^127 <= r < 2^128, so r * r is below 2^256 and
\* the flag f = ((r * r) >> 127) >> 128 is 0 or 1; the step ORs the flag
\* into log_2 at its own bit, zero until then, and bits 0..49 of log_2
\* stay zero.
C14_Log2Invariant ==
    /\ pc \in {"dec_log", "dec_last"} =>
          LET pos == IF pc = "dec_log" THEN i ELSE 50
          IN  /\ Shr(r, 127) = NatBytes(1, 32)
              /\ ProductFits(r, r)
              /\ IsFlag(LogStep(r, log_2, pos, pc = "dec_last").f)
              /\ LowBitsZero(log_2, pos)
              /\ LogStep(r, log_2, pos, pc = "dec_last").log_2 =
                     wrapping_add(log_2, Shl(LogStep(r, log_2, pos, pc = "dec_last").f, pos))
    /\ pc \in {"dec_ticks", "dec_choose"} =>
          /\ IsFlag(f)
          /\ LowBitsZero(log_2, 49)

\* The last step starts with the flag of bit 51 set, after flags of both
\* values in bits 56..63.
C14_Witness ==
    /\ pc = "dec_last"
    /\ f = NatBytes(1, 32)
    /\ log_2[8] \notin {0, 255}
    /\ (log_2[7] \div 8) % 2 = 1

\* ratio after the loop over TICK_MASKS from row k on.  A ratio of zero
\* stays zero.
RECURSIVE RatioLoop(_, _, _)
RatioLoop(abs_tick_, ratio_, k) ==
    IF k > Len(TICK_MASKS) \/ IsZero(ratio_) THEN ratio_
    ELSE RatioLoop(abs_tick_, RatioStep(abs_tick_, ratio_, k), k + 1)

\* The result of the encoder for tick t.
get_sqrt_ratio_at_tick_internal(t) ==
    IF ~TickInRange(t) THEN InvalidTick(t)
    ELSE LET looped == RatioLoop(unsigned_abs(t), RatioSeed(unsigned_abs(t)), 1)
             inv    == RatioInvert(t, looped)
         IN  IF inv.tag = "Ok" THEN Narrow(inv.val) ELSE inv

\* C15: tie-break.  For every accepted price the three signed operations
\* on log_2 do not overflow, the candidates satisfy
\* tick_low <= tick_high <= tick_low + 1, and the returned tick is
\* tick_high exactly when encode(tick_high) <= price, and tick_low
\* otherwise.
C15_TieBreak ==
    /\ pc = "dec_ticks" =>
          \A c \in {Candidates(log_2)} :
              ~c.ovf /\ c.low.tag = "Ok" /\ c.high.tag = "Ok"
    /\ pc = "dec_choose" =>
          /\ as_i32(tick_low) <= as_i32(tick_high)
          /\ as_i32(tick_high) <= as_i32(tick_low) + 1
    /\ pc = "dec_ret" /\ PriceInRange(sqrt_price_x96) =>
          LET high_ratio == get_sqrt_ratio_at_tick_internal(as_i32(tick_high))
          IN  /\ dec_result.tag = "Ok"
              /\ high_ratio.tag = "Ok"
              /\ dec_result.val \in {tick_low, tick_high}
              /\ dec_result.val = tick_high <=> Le(high_ratio.val, sqrt_price_x96)

\* The decoder returned tick_low, one below tick_high, which encodes to
\* more than the price.
C15_Witness ==
    /\ pc = "dec_ret"
    /\ PriceInRange(sqrt_price_x96)
    /\ caller = "decoder"
    /\ as_i32(tick_high) = as_i32(tick_low) + 1
    /\ dec_result = Ok(tick_low)
    /\ Lt(sqrt_price_x96, enc_result.val)

---------------------------------------------------------------------------
(* The steps of the encoder.                                               *)

\* The low 32 bits of the word a are zero.
Low32Zero(a) == \A k \in 1..4 : a[k] = 0

\* C16: ceiling narrowing.  For every valid tick, with ratio the value
\* before the narrowing, the returned price s is ceil(ratio / 2^32):
\* ratio >> 32 when the low 32 bits of ratio are zero and (ratio >> 32) + 1
\* otherwise, so that (s - 1) * 2^32 < ratio <= s * 2^32.
C16_Ceiling ==
    (pc = "enc_ret" /\ InTickDomain(tick)) =>
        /\ enc_result.tag = "Ok"
        /\ LET s == Resize(enc_result.val, 32)
           IN  /\ Low32Zero(ratio) => s = Shr(ratio, 32)
               /\ ~Low32Zero(ratio) => s = wrapping_add(Shr(ratio, 32), NatBytes(1, 32))
               /\ ~IsZero(s)
               /\ Lt(Shl(wrapping_sub(s, NatBytes(1, 32)), 32), ratio)
               /\ Le(ratio, Shl(s, 32))
               /\ Shr(Shl(s, 32), 32) = s

\* The encoder rounded up the price of the least tick.
C16_Witness ==
    /\ pc = "enc_ret"
    /\ tick = -887272
    /\ ~Low32Zero(ratio)
    /\ enc_result = Ok(Resize(wrapping_add(Shr(ratio, 32), NatBytes(1, 32)), 20))

\* 2^128, the scale of ratio.
TwoTo128 == Word([k \in 1..32 |-> IF k = 17 THEN 1 ELSE 0], 32)

\* C17: encoder intermediates.  For every tick of [-887272, 887272],
\* throughout the loop over TICK_MASKS 0 < ratio <= 2^128, so that each
\* product ratio * ratio_multiplier is below 2^256; U256::MAX / ratio never
\* divides by zero; and the rounded result is below 2^160, so that the
\* narrowing to U160 neither fails nor drops bits.
C17_NoOverflow ==
    /\ pc \in {"enc_loop", "enc_invert"} =>
          /\ InTickDomain(tick)
          /\ ~IsZero(ratio)
          /\ Le(ratio, TwoTo128)
    /\ pc = "enc_loop" => ProductFits(ratio, TICK_MASKS[i][2])
    /\ pc = "enc_narrow" =>
          /\ ~IsZero(ratio)
          /\ SigLen(wrapping_add(Shr(ratio, 32), NatBytes(1, 32))) <= 20
    /\ pc = "enc_ret" /\ InTickDomain(tick) =>
          /\ enc_result.tag = "Ok"
          /\ Shr(Shl(Resize(enc_result.val, 32), 32), 32) \in
                {Shr(ratio, 32), wrapping_add(Shr(ratio, 32), NatBytes(1, 32))}

\* The loop has ended for the largest tick with the least ratio, of 65
\* bits, which the inversion divides by.
C17_Witness ==
    /\ pc = "enc_invert"
    /\ tick = 887272
    /\ SigLen(ratio) = 9
    /\ RatioInvert(tick, ratio).tag = "Ok"

---------------------------------------------------------------------------
(* The two implementations.                                                *)

\* C18: lib.rs and tick_math.rs agree on the valid domain.  For every tick
\* of [-887272, 887272] get_sqrt_ratio_at_tick_alloy returns the value
\* get_sqrt_ratio_at_tick_internal returns, and for every price of
\* [MIN_SQRT_RATIO, MAX_SQRT_RATIO) get_tick_at_sqrt_ratio_alloy returns
\* the tick get_tick_at_sqrt_ratio_internal returns.
C18_Agree ==
    /\ pc = "alloy_enc_ret" /\ InTickDomain(alloy_tick) =>
          /\ alloy_enc_result.tag = "Ok"
          /\ alloy_enc_result = get_sqrt_ratio_at_tick_internal(alloy_tick)
          /\ alloy_caller = "test" => alloy_enc_result = ratio_a
    /\ pc = "alloy_dec_ret" /\ alloy_entry = "rust" /\ InPriceDomain(alloy_price) =>
          /\ alloy_price = sqrt_price_x96
          /\ alloy_dec_result.tag = "Ok"
          /\ alloy_dec_result = dec_result

\* get_tick_at_sqrt_ratio_alloy returned, after its nested call, the tick
\* get_tick_at_sqrt_ratio_internal returned for the same price, which is
\* the price of that tick.
C18_Witness ==
    /\ pc = "alloy_dec_ret"
    /\ alloy_entry = "rust"
    /\ alloy_caller = "decoder"
    /\ InPriceDomain(alloy_price)
    /\ alloy_dec_result = dec_result
    /\ alloy_dec_result = Ok(alloy_tick_high)
    /\ alloy_enc_result = Ok(alloy_price)

=============================================================================
